---- MODULE Spec2Model ----
(***************************************************************************)
(* BEAM link-layer codec of esp32-beam: frame parser, payload dispatcher,  *)
(* frame serializer and the CRC engines, in the three variants found in    *)
(* the repository:                                                         *)
(*   "ext"    4-byte header, esp_crc16_be          (src/src/beam_parser.c) *)
(*   "min"    3-byte header, bit-wise CRC          (src/unnamed/part_000)  *)
(*   "legacy" 3-byte header, flat payload array,                           *)
(*            beam_validate_frame           (src/src/beam_parser.c:172-291)*)
(* Memory is modelled byte by byte: a buffer is a function from 0-based    *)
(* indices to bytes, the payload union is its MAX_PAYLOAD_SIZE bytes of    *)
(* storage, and memcpy overwrites exactly the bytes it copies.             *)
(***************************************************************************)
EXTENDS Integers, Sequences, FiniteSets, TLC

(***************************************************************************)
(* Program constants                                                       *)
(***************************************************************************)
MAX_PAYLOAD_SIZE == 200
LEGACY_MAX_PAYLOAD_SIZE == 250
FRAME_HEADER_SIZE == 4
MIN_FRAME_HEADER_SIZE == 3
FRAME_CRC_SIZE == 2
BEAM_FRAME_MIN_SIZE == 5
CRC_INIT == 65535
CRC_BIT_MASK == 32768
CRC_POLYNOM == 4129
MSG_CAT_TELEMETRY == 0
MSG_CAT_BATTERY == 1
\* the minimal profile's message ids (their header is not in the sources;
\* the documented wire example gives Telemetry the tag 0x00)
MSG_ID_TELEMETRY == MSG_CAT_TELEMETRY
MSG_ID_BATTERY == MSG_CAT_BATTERY
SIZEOF_TELEMETRY == 12
SIZEOF_BATTERY == 5
UINT8_RANGE == 256
UINT16_RANGE == 65536

\* FRAME_SIZE with the CRC field forgotten
FRAME_SIZE_without_crc(len) == FRAME_HEADER_SIZE + len

FRAME_SIZE(len) == FRAME_HEADER_SIZE + len + FRAME_CRC_SIZE
FRAME_MIN_SIZE == FRAME_SIZE(0)
MIN_FRAME_SIZE(len) == MIN_FRAME_HEADER_SIZE + len + FRAME_CRC_SIZE

ESP_OK == "ESP_OK"
ESP_ERR_INVALID_ARG == "ESP_ERR_INVALID_ARG"
ESP_ERR_INVALID_SIZE == "ESP_ERR_INVALID_SIZE"
ESP_ERR_INVALID_CRC == "ESP_ERR_INVALID_CRC"
ESP_ERR_INVALID_STATE == "ESP_ERR_INVALID_STATE"

(***************************************************************************)
(* Bounds of the model                                                     *)
(***************************************************************************)
\* payload lengths 0..MaxSmallLen are all modelled, next to the boundary ones
MaxSmallLen == 6
\* number of variants (flags, seq, payload bytes, crc field) of a frame
NumSeeds == 2
\* frames of at most this many payload bytes have every bit flipped
MaxFlipLen == 6
\* number of distinct prior contents of the caller's out_frame
NumPriors == 1
\* bytes a delivered buffer may hold after the frame
PadLen == 2
\* longest byte sequence over the CRC alphabet fed to the CRC engines
MaxCrcLen == 3
\* CONFIG_AXES_COUNT of the build: the number of controller axes
AXES_COUNT == 2
\* execution contexts that run codec calls concurrently
NumTasks == 2
\* calls a single context makes one after the other
MaxCalls == 3
\* longest payload of the frames handled statement by statement
MaxMemLen == 1
\* controller_config calls of one run
MaxConfigs == 2

(***************************************************************************)
(* 8- and 16-bit arithmetic of the C code                                  *)
(***************************************************************************)
RECURSIVE XorBits(_, _)
XorBits(a, b) ==
    IF a = 0 THEN b
    ELSE IF b = 0 THEN a
    ELSE ((a + b) % 2) + 2 * XorBits(a \div 2, b \div 2)

\* a ^ b on bytes, tabulated once
XorByte == [a \in 0 .. UINT8_RANGE - 1 |->
              [b \in 0 .. UINT8_RANGE - 1 |-> XorBits(a, b)]]

\* a ^ b on uint16_t
Xor(a, b) ==
    XorByte[a % UINT8_RANGE][b % UINT8_RANGE]
    + UINT8_RANGE * XorByte[a \div UINT8_RANGE][b \div UINT8_RANGE]

\* ~x and x << n on uint16_t
Not16(x) == (UINT16_RANGE - 1) - x
Shl16(x, n) == (x * (2 ^ n)) % UINT16_RANGE
Pow2(n) == 2 ^ n
BitOf(x, n) == (x \div Pow2(n)) % 2
FlipBit(x, n) == IF BitOf(x, n) = 1 THEN x - Pow2(n) ELSE x + Pow2(n)

\* memcpy(dst, src + off, n): bytes 0..n-1 of dst are overwritten, the rest
\* kept; a copy longer than the storage of dst shows as bytes at indices
\* behind the storage
memcpy(dst, src, off, n) ==
    [i \in (DOMAIN dst) \cup (0 .. n - 1) |->
        IF i < n THEN src[off + i] ELSE dst[i]]

(***************************************************************************)
(* CRC engines.  A for loop over a byte range lo..hi-1 is evaluated by     *)
(* halving the range (left half first, then the right half from the left   *)
(* half's register), which visits the bytes in the loop's order.           *)
(***************************************************************************)
RECURSIVE crc_bit_loop(_, _)
crc_bit_loop(crc, i) ==
    IF i = 8 THEN crc
    ELSE LET c == IF crc \div CRC_BIT_MASK = 1
                  THEN Xor(Shl16(crc, 1), CRC_POLYNOM)
                  ELSE Shl16(crc, 1)
         IN  IF c < 0 THEN c ELSE crc_bit_loop(c, i + 1)

\* compute_crc16_per_byte folding the byte into the low half of the register
compute_crc16_per_byte_low_half(crc, data) ==
    crc_bit_loop(Xor(crc, data), 0)

\* minimal profile: one byte of the bit-wise CRC
compute_crc16_per_byte(crc, data) ==
    crc_bit_loop(Xor(crc, Shl16(data, 8)), 0)

RECURSIVE compute_frame_crc_loop(_, _, _, _)
compute_frame_crc_loop(crc, data, lo, hi) ==
    IF hi <= lo THEN crc
    ELSE IF hi - lo = 1
    THEN compute_crc16_per_byte(crc, data[MIN_FRAME_HEADER_SIZE + lo])
    ELSE LET mid == (lo + hi) \div 2
             c == compute_frame_crc_loop(crc, data, lo, mid)
         IN  IF c < 0 THEN c ELSE compute_frame_crc_loop(c, data, mid, hi)

\* minimal profile: CRC over the 3 header bytes and payload_len payload bytes
compute_frame_crc(data, payload_len) ==
    LET c0 == compute_crc16_per_byte(CRC_INIT, data[0])
        c1 == compute_crc16_per_byte(c0, data[1])
        c2 == compute_crc16_per_byte(c1, data[2])
    IN  compute_frame_crc_loop(c2, data, 0, payload_len)

\* legacy variant: the same two routines under their legacy names
beam_compute_crc16_per_byte(crc, data) ==
    crc_bit_loop(Xor(crc, Shl16(data, 8)), 0)

RECURSIVE beam_compute_frame_crc_loop(_, _, _, _)
beam_compute_frame_crc_loop(crc, data, lo, hi) ==
    IF hi <= lo THEN crc
    ELSE IF hi - lo = 1
    THEN beam_compute_crc16_per_byte(crc, data[MIN_FRAME_HEADER_SIZE + lo])
    ELSE LET mid == (lo + hi) \div 2
             c == beam_compute_frame_crc_loop(crc, data, lo, mid)
         IN  IF c < 0 THEN c ELSE beam_compute_frame_crc_loop(c, data, mid, hi)

beam_compute_frame_crc(data, payload_len) ==
    LET c0 == beam_compute_crc16_per_byte(CRC_INIT, data[0])
        c1 == beam_compute_crc16_per_byte(c0, data[1])
        c2 == beam_compute_crc16_per_byte(c1, data[2])
    IN  beam_compute_frame_crc_loop(c2, data, 0, payload_len)

\* ESP-IDF ROM routine called by the extended profile (esp_rom_crc16_be):
\* the register is complemented on entry and on exit, and in between each
\* byte is folded in through the ROM's 256-entry table of the MSB-first
\* polynomial 0x1021:  crc = table[(crc >> 8) ^ buf[i]] ^ (crc << 8).
\* The table is a tuple, so entry b of the ROM table is crc16_be_table[b + 1].
crc16_be_table ==
    <<     0,  4129,  8258, 12387, 16516, 20645, 24774, 28903,
       33032, 37161, 41290, 45419, 49548, 53677, 57806, 61935,
        4657,   528, 12915,  8786, 21173, 17044, 29431, 25302,
       37689, 33560, 45947, 41818, 54205, 50076, 62463, 58334,
        9314, 13379,  1056,  5121, 25830, 29895, 17572, 21637,
       42346, 46411, 34088, 38153, 58862, 62927, 50604, 54669,
       13907,  9842,  5649,  1584, 30423, 26358, 22165, 18100,
       46939, 42874, 38681, 34616, 63455, 59390, 55197, 51132,
       18628, 22757, 26758, 30887,  2112,  6241, 10242, 14371,
       51660, 55789, 59790, 63919, 35144, 39273, 43274, 47403,
       23285, 19156, 31415, 27286,  6769,  2640, 14899, 10770,
       56317, 52188, 64447, 60318, 39801, 35672, 47931, 43802,
       27814, 31879, 19684, 23749, 11298, 15363,  3168,  7233,
       60846, 64911, 52716, 56781, 44330, 48395, 36200, 40265,
       32407, 28342, 24277, 20212, 15891, 11826,  7761,  3696,
       65439, 61374, 57309, 53244, 48923, 44858, 40793, 36728,
       37256, 33193, 45514, 41451, 53516, 49453, 61774, 57711,
        4224,   161, 12482,  8419, 20484, 16421, 28742, 24679,
       33721, 37784, 41979, 46042, 49981, 54044, 58239, 62302,
         689,  4752,  8947, 13010, 16949, 21012, 25207, 29270,
       46570, 42443, 38312, 34185, 62830, 58703, 54572, 50445,
       13538,  9411,  5280,  1153, 29798, 25671, 21540, 17413,
       42971, 47098, 34713, 38840, 59231, 63358, 50973, 55100,
        9939, 14066,  1681,  5808, 26199, 30326, 17941, 22068,
       55628, 51565, 63758, 59695, 39368, 35305, 47498, 43435,
       22596, 18533, 30726, 26663,  6336,  2273, 14466, 10403,
       52093, 56156, 60223, 64286, 35833, 39896, 43963, 48026,
       19061, 23124, 27191, 31254,  2801,  6864, 10931, 14994,
       64814, 60687, 56684, 52557, 48554, 44427, 40424, 36297,
       31782, 27655, 23652, 19525, 15522, 11395,  7392,  3265,
       61215, 65342, 53085, 57212, 44955, 49082, 36825, 40952,
       28183, 32310, 20053, 24180, 11923, 16050,  3793,  7920 >>

RECURSIVE esp_crc16_be_loop(_, _, _, _)
esp_crc16_be_loop(crc, buf, lo, hi) ==
    IF hi <= lo THEN crc
    ELSE IF hi - lo = 1
    THEN Xor(crc16_be_table[Xor(crc \div UINT8_RANGE, buf[lo]) + 1],
             Shl16(crc, 8))
    ELSE LET mid == (lo + hi) \div 2
             c == esp_crc16_be_loop(crc, buf, lo, mid)
         IN  IF c < 0 THEN c ELSE esp_crc16_be_loop(c, buf, mid, hi)

esp_crc16_be(crc, buf, len) ==
    Not16(esp_crc16_be_loop(Not16(crc), buf, 0, len))

(***************************************************************************)
(* Results of a call: the return code, the memory the call leaves behind   *)
(* and what it touched (reads: indices of data read; crc_len: number of    *)
(* bytes fed to the CRC engine, -1 when the engine was not run; member:    *)
(* the union member fill_payload copied into, "none" when it did not run). *)
(***************************************************************************)
ParseResult(ret, out, member, crc_len, reads) ==
    [ret |-> ret, out |-> out, member |-> member, crc_len |-> crc_len,
     reads |-> reads]

SerializeResult(ret, out_buffer, out_size) ==
    [ret |-> ret, out_buffer |-> out_buffer, out_size |-> out_size]

(***************************************************************************)
(* Extended profile (src/src/beam_parser.c:1-170)                          *)
(***************************************************************************)
\* fill_payload copying a short payload into the typed member
fill_payload_partial_typed(msg_category, data, off, len, payload) ==
    IF msg_category = MSG_CAT_TELEMETRY
    THEN IF len >= SIZEOF_TELEMETRY
         THEN [raw |-> memcpy(payload, data, off, SIZEOF_TELEMETRY),
               member |-> "telemetry", n |-> SIZEOF_TELEMETRY]
         ELSE [raw |-> memcpy(payload, data, off, len),
               member |-> "telemetry", n |-> len]
    ELSE IF msg_category = MSG_CAT_BATTERY
    THEN IF len >= SIZEOF_BATTERY
         THEN [raw |-> memcpy(payload, data, off, SIZEOF_BATTERY),
               member |-> "battery", n |-> SIZEOF_BATTERY]
         ELSE [raw |-> memcpy(payload, data, off, len),
               member |-> "raw", n |-> len]
    ELSE [raw |-> memcpy(payload, data, off, len), member |-> "raw", n |-> len]

\* fill_payload copying len bytes, not sizeof, into the typed member
fill_payload_typed_len(msg_category, data, off, len, payload) ==
    IF msg_category = MSG_CAT_TELEMETRY
    THEN IF len >= SIZEOF_TELEMETRY
         THEN [raw |-> memcpy(payload, data, off, len),
               member |-> "telemetry", n |-> SIZEOF_TELEMETRY]
         ELSE [raw |-> memcpy(payload, data, off, len),
               member |-> "raw", n |-> len]
    ELSE IF msg_category = MSG_CAT_BATTERY
    THEN IF len >= SIZEOF_BATTERY
         THEN [raw |-> memcpy(payload, data, off, len),
               member |-> "battery", n |-> SIZEOF_BATTERY]
         ELSE [raw |-> memcpy(payload, data, off, len),
               member |-> "raw", n |-> len]
    ELSE [raw |-> memcpy(payload, data, off, len), member |-> "raw", n |-> len]

\* payload_src is data + off; the result is the union storage and the member
fill_payload(msg_category, data, off, len, payload) ==
    IF msg_category = MSG_CAT_TELEMETRY
    THEN IF len >= SIZEOF_TELEMETRY
         THEN [raw |-> memcpy(payload, data, off, SIZEOF_TELEMETRY),
               member |-> "telemetry", n |-> SIZEOF_TELEMETRY]
         ELSE [raw |-> memcpy(payload, data, off, len),
               member |-> "raw", n |-> len]
    ELSE IF msg_category = MSG_CAT_BATTERY
    THEN IF len >= SIZEOF_BATTERY
         THEN [raw |-> memcpy(payload, data, off, SIZEOF_BATTERY),
               member |-> "battery", n |-> SIZEOF_BATTERY]
         ELSE [raw |-> memcpy(payload, data, off, len),
               member |-> "raw", n |-> len]
    ELSE [raw |-> memcpy(payload, data, off, len), member |-> "raw", n |-> len]

\* parse_into_frame comparing only the low byte of the two checksums
parse_into_frame_crc_low_byte(data, data_len, out) ==
    IF ~(data_len >= FRAME_HEADER_SIZE)
    THEN ParseResult(ESP_ERR_INVALID_SIZE, out, "none", -1, {})
    ELSE
    LET len == data[3] IN
    IF ~(len <= MAX_PAYLOAD_SIZE)
    THEN ParseResult(ESP_ERR_INVALID_SIZE, out, "none", -1, {3})
    ELSE IF ~(data_len >= FRAME_SIZE(len))
    THEN ParseResult(ESP_ERR_INVALID_SIZE, out, "none", -1, {3})
    ELSE
    LET expected_crc == esp_crc16_be(CRC_INIT, data, FRAME_HEADER_SIZE + len)
        received_crc == data[FRAME_HEADER_SIZE + len]
                        + Shl16(data[FRAME_HEADER_SIZE + len + 1], 8)
        crc_reads == 0 .. (FRAME_HEADER_SIZE + len + 1)
    IN
    IF ~(expected_crc % UINT8_RANGE = received_crc % UINT8_RANGE)
    THEN ParseResult(ESP_ERR_INVALID_CRC, out, "none",
                     FRAME_HEADER_SIZE + len, crc_reads)
    ELSE
    LET hdr == [msg_category |-> data[0], flags |-> data[1],
                seq |-> data[2], len |-> len]
        fp == fill_payload(hdr.msg_category, data, FRAME_HEADER_SIZE, len,
                           out.payload)
    IN  ParseResult(ESP_OK,
                    [header |-> hdr, payload |-> fp.raw, crc |-> received_crc],
                    fp.member, FRAME_HEADER_SIZE + len,
                    crc_reads \cup (FRAME_HEADER_SIZE .. FRAME_HEADER_SIZE + fp.n - 1))

\* parse_into_frame filling in the header before the checksum is verified
parse_into_frame_early_header(data, data_len, out) ==
    IF ~(data_len >= FRAME_HEADER_SIZE)
    THEN ParseResult(ESP_ERR_INVALID_SIZE, out, "none", -1, {})
    ELSE
    LET len == data[3] IN
    IF ~(len <= MAX_PAYLOAD_SIZE)
    THEN ParseResult(ESP_ERR_INVALID_SIZE, out, "none", -1, {3})
    ELSE IF ~(data_len >= FRAME_SIZE(len))
    THEN ParseResult(ESP_ERR_INVALID_SIZE, out, "none", -1, {3})
    ELSE
    LET expected_crc == esp_crc16_be(CRC_INIT, data, FRAME_HEADER_SIZE + len)
        received_crc == data[FRAME_HEADER_SIZE + len]
                        + Shl16(data[FRAME_HEADER_SIZE + len + 1], 8)
        crc_reads == 0 .. (FRAME_HEADER_SIZE + len + 1)
    IN
    IF ~(expected_crc = received_crc)
    THEN ParseResult(ESP_ERR_INVALID_CRC,
                     [out EXCEPT !.header =
                          [msg_category |-> data[0], flags |-> data[1],
                           seq |-> data[2], len |-> len]],
                     "none",
                     FRAME_HEADER_SIZE + len, crc_reads)
    ELSE
    LET hdr == [msg_category |-> data[0], flags |-> data[1],
                seq |-> data[2], len |-> len]
        fp == fill_payload(hdr.msg_category, data, FRAME_HEADER_SIZE, len,
                           out.payload)
    IN  ParseResult(ESP_OK,
                    [header |-> hdr, payload |-> fp.raw, crc |-> received_crc],
                    fp.member, FRAME_HEADER_SIZE + len,
                    crc_reads \cup (FRAME_HEADER_SIZE .. FRAME_HEADER_SIZE + fp.n - 1))

\* parse_into_frame without the check of len against MAX_PAYLOAD_SIZE
parse_into_frame_no_max_check(data, data_len, out) ==
    IF ~(data_len >= FRAME_HEADER_SIZE)
    THEN ParseResult(ESP_ERR_INVALID_SIZE, out, "none", -1, {})
    ELSE
    LET len == data[3] IN
    IF ~(len <= UINT8_RANGE - 1)
    THEN ParseResult(ESP_ERR_INVALID_SIZE, out, "none", -1, {3})
    ELSE IF ~(data_len >= FRAME_SIZE(len))
    THEN ParseResult(ESP_ERR_INVALID_SIZE, out, "none", -1, {3})
    ELSE
    LET expected_crc == esp_crc16_be(CRC_INIT, data, FRAME_HEADER_SIZE + len)
        received_crc == data[FRAME_HEADER_SIZE + len]
                        + Shl16(data[FRAME_HEADER_SIZE + len + 1], 8)
        crc_reads == 0 .. (FRAME_HEADER_SIZE + len + 1)
    IN
    IF ~(expected_crc = received_crc)
    THEN ParseResult(ESP_ERR_INVALID_CRC, out, "none",
                     FRAME_HEADER_SIZE + len, crc_reads)
    ELSE
    LET hdr == [msg_category |-> data[0], flags |-> data[1],
                seq |-> data[2], len |-> len]
        fp == fill_payload(hdr.msg_category, data, FRAME_HEADER_SIZE, len,
                           out.payload)
    IN  ParseResult(ESP_OK,
                    [header |-> hdr, payload |-> fp.raw, crc |-> received_crc],
                    fp.member, FRAME_HEADER_SIZE + len,
                    crc_reads \cup (FRAME_HEADER_SIZE .. FRAME_HEADER_SIZE + fp.n - 1))

\* parse_into_frame accepting only a buffer of exactly the frame size
parse_into_frame_exact_size(data, data_len, out) ==
    IF ~(data_len >= FRAME_HEADER_SIZE)
    THEN ParseResult(ESP_ERR_INVALID_SIZE, out, "none", -1, {})
    ELSE
    LET len == data[3] IN
    IF ~(len <= MAX_PAYLOAD_SIZE)
    THEN ParseResult(ESP_ERR_INVALID_SIZE, out, "none", -1, {3})
    ELSE IF ~(data_len = FRAME_SIZE(len))
    THEN ParseResult(ESP_ERR_INVALID_SIZE, out, "none", -1, {3})
    ELSE
    LET expected_crc == esp_crc16_be(CRC_INIT, data, FRAME_HEADER_SIZE + len)
        received_crc == data[FRAME_HEADER_SIZE + len]
                        + Shl16(data[FRAME_HEADER_SIZE + len + 1], 8)
        crc_reads == 0 .. (FRAME_HEADER_SIZE + len + 1)
    IN
    IF ~(expected_crc = received_crc)
    THEN ParseResult(ESP_ERR_INVALID_CRC, out, "none",
                     FRAME_HEADER_SIZE + len, crc_reads)
    ELSE
    LET hdr == [msg_category |-> data[0], flags |-> data[1],
                seq |-> data[2], len |-> len]
        fp == fill_payload(hdr.msg_category, data, FRAME_HEADER_SIZE, len,
                           out.payload)
    IN  ParseResult(ESP_OK,
                    [header |-> hdr, payload |-> fp.raw, crc |-> received_crc],
                    fp.member, FRAME_HEADER_SIZE + len,
                    crc_reads \cup (FRAME_HEADER_SIZE .. FRAME_HEADER_SIZE + fp.n - 1))

parse_into_frame(data, data_len, out) ==
    IF ~(data_len >= FRAME_HEADER_SIZE)
    THEN ParseResult(ESP_ERR_INVALID_SIZE, out, "none", -1, {})
    ELSE
    LET len == data[3] IN
    IF ~(len <= MAX_PAYLOAD_SIZE)
    THEN ParseResult(ESP_ERR_INVALID_SIZE, out, "none", -1, {3})
    ELSE IF ~(data_len >= FRAME_SIZE(len))
    THEN ParseResult(ESP_ERR_INVALID_SIZE, out, "none", -1, {3})
    ELSE
    LET expected_crc == esp_crc16_be(CRC_INIT, data, FRAME_HEADER_SIZE + len)
        received_crc == data[FRAME_HEADER_SIZE + len]
                        + Shl16(data[FRAME_HEADER_SIZE + len + 1], 8)
        crc_reads == 0 .. (FRAME_HEADER_SIZE + len + 1)
    IN
    IF ~(expected_crc = received_crc)
    THEN ParseResult(ESP_ERR_INVALID_CRC, out, "none",
                     FRAME_HEADER_SIZE + len, crc_reads)
    ELSE
    LET hdr == [msg_category |-> data[0], flags |-> data[1],
                seq |-> data[2], len |-> len]
        fp == fill_payload(hdr.msg_category, data, FRAME_HEADER_SIZE, len,
                           out.payload)
    IN  ParseResult(ESP_OK,
                    [header |-> hdr, payload |-> fp.raw, crc |-> received_crc],
                    fp.member, FRAME_HEADER_SIZE + len,
                    crc_reads \cup (FRAME_HEADER_SIZE .. FRAME_HEADER_SIZE + fp.n - 1))

\* serialize_frame writing the checksum most significant byte first
serialize_frame_crc_msb_first(frame, out_buffer, buffer_size, out_size) ==
    LET required_size == FRAME_SIZE(frame.header.len) IN
    IF ~(buffer_size >= required_size)
    THEN SerializeResult(ESP_ERR_INVALID_SIZE, out_buffer, out_size)
    ELSE
    LET len == frame.header.len
        b1 == [i \in DOMAIN out_buffer |->
                 IF i = 0 THEN frame.header.msg_category
                 ELSE IF i = 1 THEN frame.header.flags
                 ELSE IF i = 2 THEN frame.header.seq
                 ELSE IF i = 3 THEN frame.header.len
                 ELSE IF i < FRAME_HEADER_SIZE + len
                      THEN frame.payload[i - FRAME_HEADER_SIZE]
                 ELSE out_buffer[i]]
        crc == esp_crc16_be(CRC_INIT, b1, FRAME_HEADER_SIZE + len)
        crc_offset == FRAME_HEADER_SIZE + len
        b2 == [i \in DOMAIN out_buffer |->
                 IF i = crc_offset THEN (crc \div UINT8_RANGE) % UINT8_RANGE
                 ELSE IF i = crc_offset + 1
                      THEN crc % UINT8_RANGE
                 ELSE b1[i]]
    IN  SerializeResult(ESP_OK, b2,
                        IF out_size.null THEN out_size
                        ELSE [null |-> FALSE, v |-> required_size])

\* serialize_frame reporting the size without the two checksum bytes
serialize_frame_out_size_no_crc(frame, out_buffer, buffer_size, out_size) ==
    LET required_size == FRAME_SIZE(frame.header.len) IN
    IF ~(buffer_size >= required_size)
    THEN SerializeResult(ESP_ERR_INVALID_SIZE, out_buffer, out_size)
    ELSE
    LET len == frame.header.len
        b1 == [i \in DOMAIN out_buffer |->
                 IF i = 0 THEN frame.header.msg_category
                 ELSE IF i = 1 THEN frame.header.flags
                 ELSE IF i = 2 THEN frame.header.seq
                 ELSE IF i = 3 THEN frame.header.len
                 ELSE IF i < FRAME_HEADER_SIZE + len
                      THEN frame.payload[i - FRAME_HEADER_SIZE]
                 ELSE out_buffer[i]]
        crc == esp_crc16_be(CRC_INIT, b1, FRAME_HEADER_SIZE + len)
        crc_offset == FRAME_HEADER_SIZE + len
        b2 == [i \in DOMAIN out_buffer |->
                 IF i = crc_offset THEN crc % UINT8_RANGE
                 ELSE IF i = crc_offset + 1
                      THEN (crc \div UINT8_RANGE) % UINT8_RANGE
                 ELSE b1[i]]
    IN  SerializeResult(ESP_OK, b2,
                        IF out_size.null THEN out_size
                        ELSE [null |-> FALSE,
                              v |-> required_size - FRAME_CRC_SIZE])

\* serialize_frame sending the frame's crc field instead of the checksum it
\* computes
serialize_frame_copies_frame_crc(frame, out_buffer, buffer_size, out_size) ==
    LET required_size == FRAME_SIZE(frame.header.len) IN
    IF ~(buffer_size >= required_size)
    THEN SerializeResult(ESP_ERR_INVALID_SIZE, out_buffer, out_size)
    ELSE
    LET len == frame.header.len
        b1 == [i \in DOMAIN out_buffer |->
                 IF i = 0 THEN frame.header.msg_category
                 ELSE IF i = 1 THEN frame.header.flags
                 ELSE IF i = 2 THEN frame.header.seq
                 ELSE IF i = 3 THEN frame.header.len
                 ELSE IF i < FRAME_HEADER_SIZE + len
                      THEN frame.payload[i - FRAME_HEADER_SIZE]
                 ELSE out_buffer[i]]
        crc == frame.crc
        crc_offset == FRAME_HEADER_SIZE + len
        b2 == [i \in DOMAIN out_buffer |->
                 IF i = crc_offset THEN crc % UINT8_RANGE
                 ELSE IF i = crc_offset + 1
                      THEN (crc \div UINT8_RANGE) % UINT8_RANGE
                 ELSE b1[i]]
    IN  SerializeResult(ESP_OK, b2,
                        IF out_size.null THEN out_size
                        ELSE [null |-> FALSE, v |-> required_size])

serialize_frame(frame, out_buffer, buffer_size, out_size) ==
    LET required_size == FRAME_SIZE(frame.header.len) IN
    IF ~(buffer_size >= required_size)
    THEN SerializeResult(ESP_ERR_INVALID_SIZE, out_buffer, out_size)
    ELSE
    LET len == frame.header.len
        b1 == [i \in DOMAIN out_buffer |->
                 IF i = 0 THEN frame.header.msg_category
                 ELSE IF i = 1 THEN frame.header.flags
                 ELSE IF i = 2 THEN frame.header.seq
                 ELSE IF i = 3 THEN frame.header.len
                 ELSE IF i < FRAME_HEADER_SIZE + len
                      THEN frame.payload[i - FRAME_HEADER_SIZE]
                 ELSE out_buffer[i]]
        crc == esp_crc16_be(CRC_INIT, b1, FRAME_HEADER_SIZE + len)
        crc_offset == FRAME_HEADER_SIZE + len
        b2 == [i \in DOMAIN out_buffer |->
                 IF i = crc_offset THEN crc % UINT8_RANGE
                 ELSE IF i = crc_offset + 1
                      THEN (crc \div UINT8_RANGE) % UINT8_RANGE
                 ELSE b1[i]]
    IN  SerializeResult(ESP_OK, b2,
                        IF out_size.null THEN out_size
                        ELSE [null |-> FALSE, v |-> required_size])

\* beam_parse_into_frame checking data_len before the pointers
beam_parse_into_frame_size_first(data, data_len, out_frame) ==
    IF ~(data_len >= FRAME_MIN_SIZE)
    THEN ParseResult(ESP_ERR_INVALID_SIZE, out_frame, "none", -1, {})
    ELSE IF ~(~data.null)
    THEN ParseResult(ESP_ERR_INVALID_ARG, out_frame, "none", -1, {})
    ELSE IF ~(~out_frame.null)
    THEN ParseResult(ESP_ERR_INVALID_ARG, out_frame, "none", -1, {})
    ELSE LET r == parse_into_frame(data.v, data_len, out_frame.v)
         IN  [r EXCEPT !.out = [null |-> FALSE, v |-> r.out]]

\* data and out_frame are pointers: [null |-> TRUE] or [null |-> FALSE, v |-> _]
beam_parse_into_frame(data, data_len, out_frame) ==
    IF ~(~data.null)
    THEN ParseResult(ESP_ERR_INVALID_ARG, out_frame, "none", -1, {})
    ELSE IF ~(~out_frame.null)
    THEN ParseResult(ESP_ERR_INVALID_ARG, out_frame, "none", -1, {})
    ELSE IF ~(data_len >= FRAME_MIN_SIZE)
    THEN ParseResult(ESP_ERR_INVALID_SIZE, out_frame, "none", -1, {})
    ELSE LET r == parse_into_frame(data.v, data_len, out_frame.v)
         IN  [r EXCEPT !.out = [null |-> FALSE, v |-> r.out]]

\* beam_serialize_frame rejecting a payload of exactly MAX_PAYLOAD_SIZE
beam_serialize_frame_strict_max(frame, out_buffer, buffer_size, out_size) ==
    IF ~(~frame.null)
    THEN SerializeResult(ESP_ERR_INVALID_ARG, out_buffer, out_size)
    ELSE IF ~(~out_buffer.null)
    THEN SerializeResult(ESP_ERR_INVALID_ARG, out_buffer, out_size)
    ELSE IF ~(frame.v.header.len < MAX_PAYLOAD_SIZE)
    THEN SerializeResult(ESP_ERR_INVALID_STATE, out_buffer, out_size)
    ELSE LET r == serialize_frame(frame.v, out_buffer.v, buffer_size, out_size)
         IN  [r EXCEPT !.out_buffer = [null |-> FALSE, v |-> r.out_buffer]]

\* beam_serialize_frame reporting an over-long frame with the parser's code
beam_serialize_frame_size_code(frame, out_buffer, buffer_size, out_size) ==
    IF ~(~frame.null)
    THEN SerializeResult(ESP_ERR_INVALID_ARG, out_buffer, out_size)
    ELSE IF ~(~out_buffer.null)
    THEN SerializeResult(ESP_ERR_INVALID_ARG, out_buffer, out_size)
    ELSE IF ~(frame.v.header.len <= MAX_PAYLOAD_SIZE)
    THEN SerializeResult(ESP_ERR_INVALID_SIZE, out_buffer, out_size)
    ELSE LET r == serialize_frame(frame.v, out_buffer.v, buffer_size, out_size)
         IN  [r EXCEPT !.out_buffer = [null |-> FALSE, v |-> r.out_buffer]]

beam_serialize_frame(frame, out_buffer, buffer_size, out_size) ==
    IF ~(~frame.null)
    THEN SerializeResult(ESP_ERR_INVALID_ARG, out_buffer, out_size)
    ELSE IF ~(~out_buffer.null)
    THEN SerializeResult(ESP_ERR_INVALID_ARG, out_buffer, out_size)
    ELSE IF ~(frame.v.header.len <= MAX_PAYLOAD_SIZE)
    THEN SerializeResult(ESP_ERR_INVALID_STATE, out_buffer, out_size)
    ELSE LET r == serialize_frame(frame.v, out_buffer.v, buffer_size, out_size)
         IN  [r EXCEPT !.out_buffer = [null |-> FALSE, v |-> r.out_buffer]]

(***************************************************************************)
(* Minimal profile (src/unnamed/part_000): 3-byte header msg_id, seq, len  *)
(***************************************************************************)
min_fill_payload(msg_id, data, off, len, payload) ==
    IF msg_id = MSG_ID_TELEMETRY
    THEN IF len >= SIZEOF_TELEMETRY
         THEN [raw |-> memcpy(payload, data, off, SIZEOF_TELEMETRY),
               member |-> "telemetry", n |-> SIZEOF_TELEMETRY]
         ELSE [raw |-> memcpy(payload, data, off, len),
               member |-> "raw", n |-> len]
    ELSE IF msg_id = MSG_ID_BATTERY
    THEN IF len >= SIZEOF_BATTERY
         THEN [raw |-> memcpy(payload, data, off, SIZEOF_BATTERY),
               member |-> "battery", n |-> SIZEOF_BATTERY]
         ELSE [raw |-> memcpy(payload, data, off, len),
               member |-> "raw", n |-> len]
    ELSE [raw |-> memcpy(payload, data, off, len), member |-> "raw", n |-> len]

\* parse_into_frame of the minimal profile without the check of len against
\* MAX_PAYLOAD_SIZE
min_parse_into_frame_no_max_check(data, data_len, out) ==
    IF ~(data_len >= MIN_FRAME_HEADER_SIZE)
    THEN ParseResult(ESP_ERR_INVALID_SIZE, out, "none", -1, {})
    ELSE
    LET len == data[2] IN
    IF ~(len <= UINT8_RANGE - 1)
    THEN ParseResult(ESP_ERR_INVALID_SIZE, out, "none", -1, {2})
    ELSE IF ~(data_len >= MIN_FRAME_SIZE(len))
    THEN ParseResult(ESP_ERR_INVALID_SIZE, out, "none", -1, {2})
    ELSE
    LET expected_crc == compute_frame_crc(data, len)
        received_crc == data[MIN_FRAME_HEADER_SIZE + len]
                        + Shl16(data[MIN_FRAME_HEADER_SIZE + len + 1], 8)
        crc_reads == 0 .. (MIN_FRAME_HEADER_SIZE + len + 1)
    IN
    IF ~(expected_crc = received_crc)
    THEN ParseResult(ESP_ERR_INVALID_CRC, out, "none",
                     MIN_FRAME_HEADER_SIZE + len, crc_reads)
    ELSE
    LET hdr == [msg_id |-> data[0], seq |-> data[1], len |-> len]
        fp == min_fill_payload(hdr.msg_id, data, MIN_FRAME_HEADER_SIZE, len,
                               out.payload)
    IN  ParseResult(ESP_OK,
                    [header |-> hdr, payload |-> fp.raw, crc |-> received_crc],
                    fp.member, MIN_FRAME_HEADER_SIZE + len,
                    crc_reads \cup (MIN_FRAME_HEADER_SIZE .. MIN_FRAME_HEADER_SIZE + fp.n - 1))

min_parse_into_frame(data, data_len, out) ==
    IF ~(data_len >= MIN_FRAME_HEADER_SIZE)
    THEN ParseResult(ESP_ERR_INVALID_SIZE, out, "none", -1, {})
    ELSE
    LET len == data[2] IN
    IF ~(len <= MAX_PAYLOAD_SIZE)
    THEN ParseResult(ESP_ERR_INVALID_SIZE, out, "none", -1, {2})
    ELSE IF ~(data_len >= MIN_FRAME_SIZE(len))
    THEN ParseResult(ESP_ERR_INVALID_SIZE, out, "none", -1, {2})
    ELSE
    LET expected_crc == compute_frame_crc(data, len)
        received_crc == data[MIN_FRAME_HEADER_SIZE + len]
                        + Shl16(data[MIN_FRAME_HEADER_SIZE + len + 1], 8)
        crc_reads == 0 .. (MIN_FRAME_HEADER_SIZE + len + 1)
    IN
    IF ~(expected_crc = received_crc)
    THEN ParseResult(ESP_ERR_INVALID_CRC, out, "none",
                     MIN_FRAME_HEADER_SIZE + len, crc_reads)
    ELSE
    LET hdr == [msg_id |-> data[0], seq |-> data[1], len |-> len]
        fp == min_fill_payload(hdr.msg_id, data, MIN_FRAME_HEADER_SIZE, len,
                               out.payload)
    IN  ParseResult(ESP_OK,
                    [header |-> hdr, payload |-> fp.raw, crc |-> received_crc],
                    fp.member, MIN_FRAME_HEADER_SIZE + len,
                    crc_reads \cup (MIN_FRAME_HEADER_SIZE .. MIN_FRAME_HEADER_SIZE + fp.n - 1))

\* serialize_frame of the minimal profile writing len before seq
min_serialize_frame_len_before_seq(frame, out_buffer, buffer_size, out_size) ==
    LET required_size == MIN_FRAME_SIZE(frame.header.len) IN
    IF ~(buffer_size >= required_size)
    THEN SerializeResult(ESP_ERR_INVALID_SIZE, out_buffer, out_size)
    ELSE
    LET len == frame.header.len
        b1 == [i \in DOMAIN out_buffer |->
                 IF i = 0 THEN frame.header.msg_id
                 ELSE IF i = 1 THEN frame.header.len
                 ELSE IF i = 2 THEN frame.header.seq
                 ELSE IF i < MIN_FRAME_HEADER_SIZE + len
                      THEN frame.payload[i - MIN_FRAME_HEADER_SIZE]
                 ELSE out_buffer[i]]
        crc == compute_frame_crc(b1, len)
        crc_offset == MIN_FRAME_HEADER_SIZE + len
        b2 == [i \in DOMAIN out_buffer |->
                 IF i = crc_offset THEN crc % UINT8_RANGE
                 ELSE IF i = crc_offset + 1
                      THEN (crc \div UINT8_RANGE) % UINT8_RANGE
                 ELSE b1[i]]
    IN  SerializeResult(ESP_OK, b2,
                        IF out_size.null THEN out_size
                        ELSE [null |-> FALSE, v |-> required_size])

min_serialize_frame(frame, out_buffer, buffer_size, out_size) ==
    LET required_size == MIN_FRAME_SIZE(frame.header.len) IN
    IF ~(buffer_size >= required_size)
    THEN SerializeResult(ESP_ERR_INVALID_SIZE, out_buffer, out_size)
    ELSE
    LET len == frame.header.len
        b1 == [i \in DOMAIN out_buffer |->
                 IF i = 0 THEN frame.header.msg_id
                 ELSE IF i = 1 THEN frame.header.seq
                 ELSE IF i = 2 THEN frame.header.len
                 ELSE IF i < MIN_FRAME_HEADER_SIZE + len
                      THEN frame.payload[i - MIN_FRAME_HEADER_SIZE]
                 ELSE out_buffer[i]]
        crc == compute_frame_crc(b1, len)
        crc_offset == MIN_FRAME_HEADER_SIZE + len
        b2 == [i \in DOMAIN out_buffer |->
                 IF i = crc_offset THEN crc % UINT8_RANGE
                 ELSE IF i = crc_offset + 1
                      THEN (crc \div UINT8_RANGE) % UINT8_RANGE
                 ELSE b1[i]]
    IN  SerializeResult(ESP_OK, b2,
                        IF out_size.null THEN out_size
                        ELSE [null |-> FALSE, v |-> required_size])

min_beam_parse_into_frame(data, data_len, out_frame) ==
    IF ~(~data.null)
    THEN ParseResult(ESP_ERR_INVALID_ARG, out_frame, "none", -1, {})
    ELSE IF ~(~out_frame.null)
    THEN ParseResult(ESP_ERR_INVALID_ARG, out_frame, "none", -1, {})
    ELSE IF ~(data_len >= BEAM_FRAME_MIN_SIZE)
    THEN ParseResult(ESP_ERR_INVALID_SIZE, out_frame, "none", -1, {})
    ELSE LET r == min_parse_into_frame(data.v, data_len, out_frame.v)
         IN  [r EXCEPT !.out = [null |-> FALSE, v |-> r.out]]

min_beam_serialize_frame(frame, out_buffer, buffer_size, out_size) ==
    IF ~(~frame.null)
    THEN SerializeResult(ESP_ERR_INVALID_ARG, out_buffer, out_size)
    ELSE IF ~(~out_buffer.null)
    THEN SerializeResult(ESP_ERR_INVALID_ARG, out_buffer, out_size)
    ELSE IF ~(frame.v.header.len <= MAX_PAYLOAD_SIZE)
    THEN SerializeResult(ESP_ERR_INVALID_STATE, out_buffer, out_size)
    ELSE LET r == min_serialize_frame(frame.v, out_buffer.v, buffer_size,
                                      out_size)
         IN  [r EXCEPT !.out_buffer = [null |-> FALSE, v |-> r.out_buffer]]

(***************************************************************************)
(* Legacy validator (src/src/beam_parser.c:172-291): flat frame            *)
(* stx, msg_id, seq, len, payload[250], crc; the payload is copied whole.  *)
(***************************************************************************)
beam_parse_frame_into(data, data_len, out) ==
    IF ~(data_len >= MIN_FRAME_HEADER_SIZE)
    THEN ParseResult(ESP_ERR_INVALID_SIZE, out, "none", -1, {})
    ELSE
    LET len == data[2] IN
    IF ~(len <= LEGACY_MAX_PAYLOAD_SIZE)
    THEN ParseResult(ESP_ERR_INVALID_SIZE, out, "none", -1, {2})
    ELSE
    LET frame_size == MIN_FRAME_HEADER_SIZE + len + FRAME_CRC_SIZE IN
    IF ~(data_len >= frame_size)
    THEN ParseResult(ESP_ERR_INVALID_SIZE, out, "none", -1, {2})
    ELSE
    LET expected_crc == beam_compute_frame_crc(data, len)
        received_crc == data[MIN_FRAME_HEADER_SIZE + len]
                        + Shl16(data[MIN_FRAME_HEADER_SIZE + len + 1], 8)
        crc_reads == 0 .. (MIN_FRAME_HEADER_SIZE + len + 1)
    IN
    IF ~(expected_crc = received_crc)
    THEN ParseResult(ESP_ERR_INVALID_CRC, out, "none",
                     MIN_FRAME_HEADER_SIZE + len, crc_reads)
    ELSE ParseResult(ESP_OK,
                     [out EXCEPT !.msg_id = data[0], !.seq = data[1],
                                 !.len = len,
                                 !.payload = memcpy(out.payload, data,
                                                    MIN_FRAME_HEADER_SIZE, len),
                                 !.crc = received_crc],
                     "raw", MIN_FRAME_HEADER_SIZE + len, crc_reads)

beam_validate_frame(data, data_len, out_frame) ==
    IF ~(~data.null)
    THEN ParseResult(ESP_ERR_INVALID_ARG, out_frame, "none", -1, {})
    ELSE IF ~(~out_frame.null)
    THEN ParseResult(ESP_ERR_INVALID_ARG, out_frame, "none", -1, {})
    ELSE IF ~(data_len >= BEAM_FRAME_MIN_SIZE)
    THEN ParseResult(ESP_ERR_INVALID_SIZE, out_frame, "none", -1, {})
    ELSE LET r == beam_parse_frame_into(data.v, data_len, out_frame.v)
         IN  [r EXCEPT !.out = [null |-> FALSE, v |-> r.out]]

(***************************************************************************)
(* The callers: a sender that builds a frame and serializes it, a          *)
(* transport that delivers the bytes intact, padded, truncated or with one *)
(* bit flipped (or delivers bytes of a foreign peer), and a receiver that  *)
(* parses what arrives into its out_frame.                                 *)
(***************************************************************************)
VARIABLES profile, pc, frame, ser, wire, out_before, out_frame, prs,
          crc_run, adc, heap, task, hist

\* the codec's callers; one run of a CRC engine; the ADC controller; the
\* byte-addressed memory, the call contexts and the finished calls of the
\* codec executed statement by statement
codec_vars == <<profile, pc, frame, ser, wire, out_before, out_frame, prs>>
crc_vars == <<crc_run>>
ctl_vars == <<adc>>
mem_vars == <<heap, task, hist>>
vars == <<codec_vars, crc_vars, ctl_vars, mem_vars>>

NULL == [null |-> TRUE]
Ptr(v) == [null |-> FALSE, v |-> v]

Profiles == {"ext", "min", "legacy"}
HeaderSize(p) == IF p = "ext" THEN FRAME_HEADER_SIZE ELSE MIN_FRAME_HEADER_SIZE
LenIndex(p) == HeaderSize(p) - 1
MaxPayload(p) == IF p = "legacy" THEN LEGACY_MAX_PAYLOAD_SIZE
                 ELSE MAX_PAYLOAD_SIZE
WireSize(p, len) == HeaderSize(p) + len + FRAME_CRC_SIZE

\* field access that does not depend on the frame layout of the profile
FrameCat(p, f) == IF p = "ext" THEN f.header.msg_category
                  ELSE IF p = "min" THEN f.header.msg_id ELSE f.msg_id
FrameSeq(p, f) == IF p = "legacy" THEN f.seq ELSE f.header.seq
FrameLen(p, f) == IF p = "legacy" THEN f.len ELSE f.header.len

Byte == 0 .. UINT8_RANGE - 1
Cats == {MSG_CAT_TELEMETRY, MSG_CAT_BATTERY, 2}
SmallLens == (0 .. MaxSmallLen)
             \cup {SIZEOF_TELEMETRY - 1, SIZEOF_TELEMETRY, SIZEOF_TELEMETRY + 1}
BigLens(p) == {MaxPayload(p) - 1, MaxPayload(p), MaxPayload(p) + 1,
               UINT8_RANGE - 1}

PayloadByte(seed, i) == (17 + 89 * seed + 7 * i) % UINT8_RANGE
PriorByte(k, i) == (165 + 90 * k + 3 * i) % UINT8_RANGE
BufferByte(i) == (204 + i) % UINT8_RANGE

MkFrameOf(p, cat, flags, seq, len, pl, crc) ==
    IF p = "ext"
    THEN [header |-> [msg_category |-> cat, flags |-> flags, seq |-> seq,
                      len |-> len],
          payload |-> pl, crc |-> crc]
    ELSE IF p = "min"
    THEN [header |-> [msg_id |-> cat, seq |-> seq, len |-> len],
          payload |-> pl, crc |-> crc]
    ELSE [stx |-> 36, msg_id |-> cat, seq |-> seq, len |-> len,
          payload |-> pl, crc |-> crc]

MkFrame(p, cat, flags, seq, len, seed, crc) ==
    MkFrameOf(p, cat, flags, seq, len,
              [i \in 0 .. MaxPayload(p) - 1 |-> PayloadByte(seed, i)], crc)

\* what the receiver's out_frame holds before the call
PriorFrame(p, k) ==
    LET pl == [i \in 0 .. MaxPayload(p) - 1 |-> PriorByte(k, i)] IN
    IF p = "ext"
    THEN [header |-> [msg_category |-> 238, flags |-> 238, seq |-> 238,
                      len |-> 238],
          payload |-> pl, crc |-> 4369 + k]
    ELSE IF p = "min"
    THEN [header |-> [msg_id |-> 238, seq |-> 238, len |-> 238],
          payload |-> pl, crc |-> 4369 + k]
    ELSE [stx |-> 238, msg_id |-> 238, seq |-> 238, len |-> 238,
          payload |-> pl, crc |-> 4369 + k]

\* the frames a sender builds: every small length with NumSeeds variants of
\* flags, seq, payload bytes and crc field; the boundary lengths with one
VariantFlags(v) == (3 * v) % UINT8_RANGE
VariantSeq(v) == (255 * v) % UINT8_RANGE
VariantCrc(v) == (48879 * v) % UINT16_RANGE

\* a one-byte frame whose first six bytes are themselves a frame of length
\* 0 with a matching checksum (ext: 00 01 41 00 32 86; min: 01 9F 00 79 7A)
ShortenableFrame(p) ==
    LET first == IF p = "ext" THEN 50 ELSE 121
        pl == [i \in 0 .. MaxPayload(p) - 1 |->
                 IF i = 0 THEN first ELSE PayloadByte(0, i)]
    IN  IF p = "ext" THEN MkFrameOf(p, MSG_CAT_TELEMETRY, 1, 65, 1, pl, 0)
        ELSE MkFrameOf(p, MSG_ID_BATTERY, 0, 159, 1, pl, 0)

FrameChoices(p) ==
    {MkFrame(p, c, VariantFlags(v), VariantSeq(v), l, v, VariantCrc(v)) :
        c \in Cats, l \in SmallLens, v \in 0 .. NumSeeds - 1}
    \cup {MkFrame(p, c, 3, 255, l, 0, 0) : c \in Cats, l \in BigLens(p)}
    \cup {ShortenableFrame(p)}

\* the wire CRC of the first n bytes of data, as the profile's code computes it
WireCrc(p, data, n) ==
    IF p = "ext" THEN esp_crc16_be(CRC_INIT, data, n)
    ELSE IF p = "min" THEN compute_frame_crc(data, n - MIN_FRAME_HEADER_SIZE)
    ELSE beam_compute_frame_crc(data, n - MIN_FRAME_HEADER_SIZE)

SerializeCall(p, f, b, size, osz) ==
    IF p = "ext" THEN beam_serialize_frame(f, b, size, osz)
    ELSE min_beam_serialize_frame(f, b, size, osz)

ParseCall(p, d, n, o) ==
    IF p = "ext" THEN beam_parse_into_frame(d, n, o)
    ELSE IF p = "min" THEN min_beam_parse_into_frame(d, n, o)
    ELSE beam_validate_frame(d, n, o)

NoSer == [ret |-> "none"]
NoWire == [origin |-> "none"]
NoPrs == [ret |-> "none"]
NoDamage == [kind |-> "none"]
NoCrc == [stage |-> "none"]
NoAdc == [pc |-> "none"]
NoHeap == <<>>
NoTask == <<>>
NoHist == {}

\* the parts of the state a specification does not exercise
CodecIdle ==
    /\ profile = "ext" /\ pc = "idle" /\ frame = NULL /\ ser = NoSer
    /\ wire = NoWire /\ out_before = NULL /\ out_frame = NULL /\ prs = NoPrs
CrcIdle == crc_run = NoCrc
CtlIdle == adc = NoAdc
MemIdle == heap = NoHeap /\ task = NoTask /\ hist = NoHist

Init ==
    /\ profile \in Profiles
    /\ pc = "idle"
    /\ frame = NULL
    /\ ser = NoSer
    /\ wire = NoWire
    /\ out_before = NULL
    /\ out_frame = NULL
    /\ prs = NoPrs
    /\ CrcIdle /\ CtlIdle /\ MemIdle

\* the sender fills in a frame (or has none: a null frame pointer)
MakeFrame ==
    /\ pc = "idle"
    /\ profile # "legacy"
    /\ \/ \E f \in FrameChoices(profile) : frame' = Ptr(f)
       \/ frame' = NULL
    /\ pc' = "framed"
    /\ UNCHANGED <<profile, ser, wire, out_before, out_frame, prs>>
    /\ UNCHANGED <<crc_vars, ctl_vars, mem_vars>>

\* the sender calls beam_serialize_frame
Serialize ==
    /\ pc = "framed"
    /\ \E bnull \in BOOLEAN, onull \in BOOLEAN,
          size \in IF frame.null THEN {FRAME_MIN_SIZE}
                   ELSE LET req == WireSize(profile, frame.v.header.len)
                        IN  {0, req - 1, req, req + PadLen} :
          LET cap == size + 1
              before == [i \in 0 .. cap - 1 |-> BufferByte(i)]
              buf == IF bnull THEN NULL ELSE Ptr(before)
              osz == IF onull THEN NULL ELSE Ptr(0)
              r == SerializeCall(profile, frame, buf, size, osz)
          IN  ser' = [ret |-> r.ret, out_buffer |-> r.out_buffer,
                      out_size |-> r.out_size, before |-> buf,
                      buffer_size |-> size]
    /\ pc' = "serialized"
    /\ UNCHANGED <<profile, frame, wire, out_before, out_frame, prs>>
    /\ UNCHANGED <<crc_vars, ctl_vars, mem_vars>>

FlipBytes(n, len) ==
    IF len <= MaxFlipLen THEN 0 .. n - 1
    ELSE (0 .. HeaderSize(profile)) \cup {n - 3, n - 2, n - 1}

TruncLens(n) ==
    {0, 1, HeaderSize(profile), HeaderSize(profile) + 1, n - 2, n - 1}
    \cap (0 .. n - 1)

\* the transport carries the serialized bytes to the receiver, whose receive
\* buffer holds data_len valid bytes (after a truncation the bytes behind
\* data_len are still memory of the buffer, holding what was lost; a padded
\* delivery carries the sender's whole buffer, or other bytes behind the
\* frame)
Transmit ==
    /\ pc = "serialized"
    /\ ser.ret = ESP_OK
    /\ LET len == frame.v.header.len
           n == WireSize(profile, len)
           sent == [i \in 0 .. n - 1 |-> ser.out_buffer.v[i]]
           w(data, data_len, damage) ==
               [origin |-> "serialize", data |-> data, data_len |-> data_len,
                damage |-> damage, sent |-> sent,
                valid |-> damage.kind \in {"none", "pad"}]
       IN  \/ wire' = w(sent, n, NoDamage)
           \/ /\ ser.buffer_size > n
              /\ \E fill \in BOOLEAN :
                    wire' = w([i \in 0 .. ser.buffer_size - 1 |->
                                 IF i >= n /\ fill THEN PriorByte(1, i)
                                 ELSE ser.out_buffer.v[i]],
                              ser.buffer_size, [kind |-> "pad"])
           \/ \E m \in TruncLens(n) :
                 wire' = w(sent, m, [kind |-> "trunc"])
           \/ \E byte \in FlipBytes(n, len), bit \in 0 .. 7 :
                 wire' = w([sent EXCEPT ![byte] = FlipBit(@, bit)], n,
                           [kind |-> "flip", byte |-> byte, bit |-> bit])
    /\ pc' = "wire"
    /\ ser' = NoSer
    /\ UNCHANGED <<profile, frame, out_before, out_frame, prs>>
    /\ UNCHANGED <<crc_vars, ctl_vars, mem_vars>>

RawLens(p) == {0, SIZEOF_BATTERY, SIZEOF_TELEMETRY} \cup BigLens(p)

\* the transport delivers bytes of some other sender: any length byte, with
\* a checksum that matches the bytes or does not, all of them or 3 too few
Receive ==
    /\ pc = "idle"
    /\ \E cat \in Cats, lenbyte \in RawLens(profile), good \in BOOLEAN,
          short \in 0 .. 1 :
          LET H == HeaderSize(profile)
              n == WireSize(profile, lenbyte)
              body == [i \in 0 .. n - 1 |->
                         IF i = 0 THEN cat
                         ELSE IF i = LenIndex(profile) THEN lenbyte
                         ELSE IF i < H THEN 7
                         ELSE PayloadByte(1, i - H)]
              crc == WireCrc(profile, body, H + lenbyte)
              data == IF good
                      THEN [body EXCEPT ![H + lenbyte] = crc % UINT8_RANGE,
                                        ![H + lenbyte + 1] =
                                            crc \div UINT8_RANGE]
                      ELSE body
          IN  wire' = [origin |-> "raw", data |-> data,
                       data_len |-> n - 3 * short,
                       damage |-> NoDamage, sent |-> data,
                       valid |-> good /\ short = 0
                                 /\ lenbyte <= MaxPayload(profile)]
    /\ pc' = "wire"
    /\ UNCHANGED <<profile, frame, ser, out_before, out_frame, prs>>
    /\ UNCHANGED <<crc_vars, ctl_vars, mem_vars>>

\* the receiver calls beam_parse_into_frame (beam_validate_frame)
Parse ==
    /\ pc = "wire"
    /\ \E dnull \in BOOLEAN, onull \in BOOLEAN, k \in 0 .. NumPriors - 1 :
          LET d == IF dnull THEN NULL ELSE Ptr(wire.data)
              o == IF onull THEN NULL ELSE Ptr(PriorFrame(profile, k))
              r == ParseCall(profile, d, wire.data_len, o)
          IN  /\ out_before' = o
              /\ out_frame' = r.out
              /\ prs' = [ret |-> r.ret, member |-> r.member,
                         crc_len |-> r.crc_len, reads |-> r.reads,
                         data_null |-> dnull, out_null |-> onull]
    /\ pc' = "parsed"
    /\ UNCHANGED <<profile, frame, ser, wire>>
    /\ UNCHANGED <<crc_vars, ctl_vars, mem_vars>>

\* the receiver serializes the frame it has just parsed (a relay) into a
\* buffer of exactly the frame's size
Reserialize ==
    /\ pc = "parsed"
    /\ prs.ret = ESP_OK
    /\ profile # "legacy"
    /\ LET size == WireSize(profile, out_frame.v.header.len)
           before == [i \in 0 .. size |-> BufferByte(i)]
           r == SerializeCall(profile, out_frame, Ptr(before), size, Ptr(0))
       IN  ser' = [ret |-> r.ret, out_buffer |-> r.out_buffer,
                   out_size |-> r.out_size, before |-> Ptr(before),
                   buffer_size |-> size]
    /\ pc' = "reserialized"
    /\ UNCHANGED <<profile, frame, wire, out_before, out_frame, prs>>
    /\ UNCHANGED <<crc_vars, ctl_vars, mem_vars>>

\* the caller is done with the call's results
Reset ==
    /\ pc \in {"serialized", "parsed", "reserialized"}
    /\ pc' = "idle"
    /\ frame' = NULL
    /\ ser' = NoSer
    /\ wire' = NoWire
    /\ out_before' = NULL
    /\ out_frame' = NULL
    /\ prs' = NoPrs
    /\ UNCHANGED profile
    /\ UNCHANGED <<crc_vars, ctl_vars, mem_vars>>

Next ==
    \/ MakeFrame
    \/ Serialize
    \/ Transmit
    \/ Receive
    \/ Parse
    \/ Reserialize
    \/ Reset

Spec == Init /\ [][Next]_vars

(***************************************************************************)
(* The CRC engines on their own: a byte sequence is fed to the bit-wise     *)
(* engine one byte per step, as the loop of compute_frame_crc does, and at  *)
(* the end the whole-buffer routines are run on the same bytes.             *)
(***************************************************************************)
CrcAlphabet == {0, 1, CRC_BIT_MASK \div UINT8_RANGE, UINT8_RANGE - 1}
\* the digits "123456789"
CheckString == [i \in 0 .. 8 |-> 49 + i]
CrcInputs ==
    UNION {[0 .. n - 1 -> CrcAlphabet] : n \in 0 .. MaxCrcLen}
    \cup {[i \in 0 .. 0 |-> b] : b \in Byte}
    \cup {CheckString}

InitCrc ==
    /\ crc_run = NoCrc
    /\ CodecIdle /\ CtlIdle /\ MemIdle

\* uint16_t crc = CRC_INIT;
CrcStart ==
    /\ crc_run.stage = "none"
    /\ \E d \in CrcInputs :
          crc_run' = [stage |-> "run", data |-> d,
                      n |-> Cardinality(DOMAIN d), i |-> 0, crc |-> CRC_INIT]
    /\ UNCHANGED <<codec_vars, ctl_vars, mem_vars>>

\* crc = compute_crc16_per_byte(crc, data[i]);
CrcByte ==
    /\ crc_run.stage = "run"
    /\ crc_run.i < crc_run.n
    /\ crc_run' = [crc_run EXCEPT
                      !.crc = compute_crc16_per_byte(@, crc_run.data[crc_run.i]),
                      !.i = @ + 1]
    /\ UNCHANGED <<codec_vars, ctl_vars, mem_vars>>

\* the same bytes through compute_frame_crc, beam_compute_frame_crc (which
\* take a 3-byte header and the payload length) and esp_crc16_be
CrcWhole ==
    /\ crc_run.stage = "run"
    /\ crc_run.i = crc_run.n
    /\ LET d == crc_run.data
           n == crc_run.n
           framed == n >= MIN_FRAME_HEADER_SIZE
       IN  crc_run' =
               [stage |-> "done", data |-> d, n |-> n, i |-> n,
                crc |-> crc_run.crc,
                framed |-> framed,
                frame_crc |-> IF framed
                              THEN compute_frame_crc(d, n - MIN_FRAME_HEADER_SIZE)
                              ELSE CRC_INIT,
                beam_frame_crc |-> IF framed
                                   THEN beam_compute_frame_crc(
                                            d, n - MIN_FRAME_HEADER_SIZE)
                                   ELSE CRC_INIT,
                esp |-> esp_crc16_be(CRC_INIT, d, n)]
    /\ UNCHANGED <<codec_vars, ctl_vars, mem_vars>>

CrcReset ==
    /\ crc_run.stage = "done"
    /\ crc_run' = NoCrc
    /\ UNCHANGED <<codec_vars, ctl_vars, mem_vars>>

NextCrc ==
    \/ CrcStart
    \/ CrcByte
    \/ CrcWhole
    \/ CrcReset

SpecCrc == InitCrc /\ [][NextCrc]_vars

(***************************************************************************)
(* The ADC controller (src/main/src/controller.c).  The vendor driver is    *)
(* the environment: adc_oneshot_new_unit succeeds or fails, calibration is  *)
(* available for an axis or not, adc_oneshot_read fails on a NULL unit      *)
(* handle.  ESP_ERROR_CHECK aborts the program on any error.                *)
(***************************************************************************)
ADC_UNIT_1 == 0
ADC_UNIT_2 == 1
ONE_SHOT == 0
CONTINUOUS == 1
NO_HANDLE == 0

Axes == 0 .. AXES_COUNT - 1
AxisChoices == [unit_id : {ADC_UNIT_1, ADC_UNIT_2},
                mode : {ONE_SHOT, CONTINUOUS},
                cali_handler : {NO_HANDLE}]

\* int unit_idx = (axis->adc_block.unit_id == ADC_UNIT_1) ? 0 : 1;
unit_idx_of(axis) == IF axis.unit_id = ADC_UNIT_1 THEN 0 ELSE 1

\* the handle adc_oneshot_new_unit returns for unit_id: a new object at each
\* call (serial counts the calls made so far), and the unit it belongs to
NewHandle(unit_id, serial) == 1 + unit_id + 2 * serial
UnitOfHandle(h) == (h - 1) % 2

\* adc_oneshot_config_channel(handle, channel, &channel_config) for axis i
ConfigChannel(st, i, handle) ==
    [st EXCEPT !.channels = @ \cup {i},
               !.chan_log = @ \cup {[axis |-> i, unit_id |-> st.cfg[i].unit_id,
                                     handle |-> handle]}]

\* adc_oneshot_new_unit(&unit_config, &adc_one_shot_handlers[unit_idx]) under
\* CONTROLLER_CHECK: the call is counted, a failure aborts, a success stores
\* the handle in the slot (unit_log keeps what the slot held before)
NewUnit(st, i, unit_idx) ==
    IF ~st.env.unit_ok
    THEN [st EXCEPT !.abort = TRUE, !.new_unit[unit_idx] = @ + 1]
    ELSE [st EXCEPT !.adc_one_shot_handlers[unit_idx] =
                        NewHandle(st.cfg[i].unit_id,
                                  st.new_unit[0] + st.new_unit[1]),
                    !.new_unit[unit_idx] = @ + 1,
                    !.unit_log = @ \cup
                        {[unit_idx |-> unit_idx,
                          prev |-> st.adc_one_shot_handlers[unit_idx]]}]

\* configure_one_shot_driver creating a unit handle at every call
configure_one_shot_driver_always_new(st, i) ==
    LET unit_idx == unit_idx_of(st.cfg[i])
        s1 == NewUnit(st, i, unit_idx)
    IN  IF s1.abort THEN s1
        ELSE ConfigChannel(s1, i, s1.adc_one_shot_handlers[unit_idx])

\* configure_one_shot_driver under CONTROLLER_CHECK: the unit handle is
\* created when the slot is NULL, then the channel is configured; st.abort is
\* set when the driver fails
configure_one_shot_driver(st, i) ==
    LET unit_idx == unit_idx_of(st.cfg[i])
        s1 == IF st.adc_one_shot_handlers[unit_idx] = NO_HANDLE
              THEN NewUnit(st, i, unit_idx)
              ELSE st
    IN  IF s1.abort THEN s1
        ELSE ConfigChannel(s1, i, s1.adc_one_shot_handlers[unit_idx])

\* adc_calibration_init: cali_handler is the created handle, or NULL when no
\* scheme is supported or the scheme cannot be created
adc_calibration_init(st, i) ==
    [st EXCEPT !.cfg[i].cali_handler =
                   IF st.env.cali[i] THEN 10 + i ELSE NO_HANDLE]

RECURSIVE controller_config_loop(_, _)
controller_config_loop(st, i) ==
    IF i = AXES_COUNT \/ st.abort THEN st
    ELSE LET s1 == IF st.cfg[i].mode = CONTINUOUS THEN st
                   ELSE configure_one_shot_driver(st, i)
             s2 == IF s1.abort THEN s1 ELSE adc_calibration_init(s1, i)
         IN  controller_config_loop(s2, i + 1)

controller_config(st, cfg_null) ==
    IF cfg_null THEN [st EXCEPT !.ret = ESP_ERR_INVALID_ARG]
    ELSE LET s1 == controller_config_loop(st, 0)
         IN  IF s1.abort THEN s1 ELSE [s1 EXCEPT !.ret = ESP_OK]

\* the loop of controller_read_values: an axis without calibration handle
\* ends the call with ESP_ERR_INVALID_ARG before it is read; adc_oneshot_read
\* on a NULL unit handle fails under CONTROLLER_CHECK
RECURSIVE controller_read_values_loop(_, _)
controller_read_values_loop(st, i) ==
    IF i = AXES_COUNT THEN [st EXCEPT !.ret = ESP_OK]
    ELSE LET unit_idx == unit_idx_of(st.cfg[i])
             cali_handler == st.cfg[i].cali_handler
         IN  IF ~(cali_handler # NO_HANDLE)
             THEN [st EXCEPT !.ret = ESP_ERR_INVALID_ARG]
             ELSE IF st.adc_one_shot_handlers[unit_idx] = NO_HANDLE
             THEN [st EXCEPT !.abort = TRUE]
             ELSE controller_read_values_loop(
                      [st EXCEPT !.read = @ \cup {i},
                                 !.conv = IF cali_handler # NO_HANDLE
                                          THEN @ \cup {i} ELSE @],
                      i + 1)

controller_read_values(st, cfg_null) ==
    IF cfg_null THEN [st EXCEPT !.ret = ESP_ERR_INVALID_ARG]
    ELSE controller_read_values_loop([st EXCEPT !.read = {}, !.conv = {}], 0)

\* after boot: the application's configuration, no unit handle, no reading
InitCtl ==
    /\ \E cfg \in [Axes -> AxisChoices],
          cali \in [Axes -> BOOLEAN], unit_ok \in BOOLEAN :
          adc = [pc |-> "boot", cfg |-> cfg,
                 env |-> [cali |-> cali, unit_ok |-> unit_ok],
                 adc_one_shot_handlers |-> [u \in 0 .. 1 |-> NO_HANDLE],
                 new_unit |-> [u \in 0 .. 1 |-> 0],
                 unit_log |-> {}, chan_log |-> {}, configs |-> 0,
                 channels |-> {}, read |-> {}, conv |-> {},
                 abort |-> FALSE, ret |-> "none", cfg_null |-> FALSE]
    /\ CodecIdle /\ CrcIdle /\ MemIdle

\* the application calls controller_config(cfg): at boot with its
\* configuration, and later again with that or with another configuration
ControllerConfig ==
    /\ adc.pc \in {"boot", "boot_failed", "configured", "read"}
    /\ adc.configs < MaxConfigs
    /\ \E cfg_null \in BOOLEAN,
          cfg \in IF adc.configs = 0 THEN {adc.cfg}
                  ELSE [Axes -> AxisChoices] :
          LET st == IF cfg_null THEN [adc EXCEPT !.configs = @ + 1]
                    ELSE [adc EXCEPT !.cfg = cfg, !.configs = @ + 1]
              r == controller_config(st, cfg_null)
          IN  adc' = [r EXCEPT !.pc = IF r.abort THEN "abort"
                                      ELSE IF ~cfg_null THEN "configured"
                                      ELSE IF adc.pc \in {"boot", "boot_failed"}
                                      THEN "boot_failed"
                                      ELSE "configured",
                               !.cfg_null = cfg_null]
    /\ UNCHANGED <<codec_vars, crc_vars, mem_vars>>

\* the application calls controller_read_values(cfg)
ControllerReadValues ==
    /\ adc.pc \in {"configured", "read"}
    /\ \E cfg_null \in BOOLEAN :
          LET r == controller_read_values(adc, cfg_null)
          IN  adc' = [r EXCEPT !.pc = IF r.abort THEN "abort" ELSE "read",
                               !.cfg_null = cfg_null]
    /\ UNCHANGED <<codec_vars, crc_vars, mem_vars>>

NextCtl ==
    \/ ControllerConfig
    \/ ControllerReadValues

SpecCtl == InitCtl /\ [][NextCtl]_vars


(***************************************************************************)
(* The codec executed statement by statement on a byte-addressed memory.   *)
(* heap maps addresses to the values of the objects stored there (one cell *)
(* per byte of a buffer or payload, one cell per scalar field).  Every     *)
(* context t owns the region [RegionBase(t), RegionBase(t) + RegionSize)   *)
(* holding its byte buffer, its beam_frame_t and its size_t out_size; the  *)
(* cell behind the last region is the module's static storage (TAG).  A    *)
(* task record holds the arguments and the local variables of the call in  *)
(* progress; locals keep their last value between calls, as stack memory   *)
(* does.  NULL pointers are NO_ADDR.                                       *)
(***************************************************************************)
NO_ADDR == -1
BufCap == FRAME_HEADER_SIZE + SIZEOF_BATTERY + 1 + FRAME_CRC_SIZE + 1
BUF_OFF == 0
FRAME_OFF == BufCap
PAYLOAD_OFF(p) == FRAME_OFF + HeaderSize(p)
CRC_OFF(p) == PAYLOAD_OFF(p) + MAX_PAYLOAD_SIZE
OUT_SIZE_OFF(p) == CRC_OFF(p) + 1
RegionSize(p) == OUT_SIZE_OFF(p) + 1
RegionBase(p, t) == t * RegionSize(p)
StaticBase(p, n) == n * RegionSize(p)

St(tk, hp) == [tk |-> tk, hp |-> hp]
Return(tk, hp, ret) == St([tk EXCEPT !.pc = "ret", !.ret = ret], hp)
\* a store of the call: the cell changes and the address is logged
Store(st, a, v) ==
    St([st.tk EXCEPT !.written = @ \cup {a}], [st.hp EXCEPT ![a] = v])
RECURSIVE StoreRange(_, _, _, _, _)
\* memcpy(dst, src, n) and runs of stores: cells dst..dst+n-1 take f[0..n-1]
StoreRange(st, dst, f, k, n) ==
    IF k >= n THEN st
    ELSE StoreRange(Store(st, dst + k, f[k]), dst, f, k + 1, n)
Slice(hp, a, n) == [i \in 0 .. n - 1 |-> hp[a + i]]

\* compute_frame_crc (minimal profile) with a register that is initialised
\* once, not per call
compute_frame_crc_stmt_no_init(tk, hp) ==
    IF tk.pc = "crc"
    THEN St([tk EXCEPT !.i = 0, !.pc = "crc_byte"], hp)
    ELSE IF tk.i < MIN_FRAME_HEADER_SIZE + tk.crc_len
    THEN St([tk EXCEPT !.crc = compute_crc16_per_byte(@, hp[tk.crc_ptr + tk.i]),
                       !.i = @ + 1], hp)
    ELSE St([tk EXCEPT !.pc = tk.crc_next], hp)

\* compute_frame_crc (minimal profile), one statement per step: the
\* initialisation of crc, then one byte of data (header bytes 0..2, then the
\* payload loop) per step, then the return
compute_frame_crc_stmt(tk, hp) ==
    IF tk.pc = "crc"
    THEN St([tk EXCEPT !.crc = CRC_INIT, !.i = 0, !.pc = "crc_byte"], hp)
    ELSE IF tk.i < MIN_FRAME_HEADER_SIZE + tk.crc_len
    THEN St([tk EXCEPT !.crc = compute_crc16_per_byte(@, hp[tk.crc_ptr + tk.i]),
                       !.i = @ + 1], hp)
    ELSE St([tk EXCEPT !.pc = tk.crc_next], hp)

\* the checksum statement with the minimal profile's crc register in static
\* storage, which all contexts share
crc_stmt_static_register(tk, hp) ==
    LET reg == StaticBase(tk.p, tk.ntasks) IN
    IF tk.p = "ext"
    THEN St([tk EXCEPT !.crc = esp_crc16_be(CRC_INIT,
                                            Slice(hp, tk.crc_ptr,
                                                  FRAME_HEADER_SIZE + tk.crc_len),
                                            FRAME_HEADER_SIZE + tk.crc_len),
                       !.pc = tk.crc_next], hp)
    ELSE IF tk.pc = "crc"
    THEN St([tk EXCEPT !.i = 0, !.pc = "crc_byte"],
            [hp EXCEPT ![reg] = CRC_INIT])
    ELSE IF tk.i < MIN_FRAME_HEADER_SIZE + tk.crc_len
    THEN St([tk EXCEPT !.i = @ + 1],
            [hp EXCEPT ![reg] =
                 compute_crc16_per_byte(hp[reg], hp[tk.crc_ptr + tk.i])])
    ELSE St([tk EXCEPT !.crc = hp[reg], !.pc = tk.crc_next], hp)

\* the checksum statement of either profile: esp_crc16_be is one call of the
\* ROM routine, compute_frame_crc runs statement by statement
crc_stmt(tk, hp) ==
    IF tk.p = "ext"
    THEN St([tk EXCEPT !.crc = esp_crc16_be(CRC_INIT,
                                            Slice(hp, tk.crc_ptr,
                                                  FRAME_HEADER_SIZE + tk.crc_len),
                                            FRAME_HEADER_SIZE + tk.crc_len),
                       !.pc = tk.crc_next], hp)
    ELSE compute_frame_crc_stmt(tk, hp)

\* beam_parse_into_frame, parse_into_frame and fill_payload, statement by
\* statement
parse_stmt(tk, hp) ==
    LET H == HeaderSize(tk.p) IN
    IF tk.pc = "entry"
    THEN IF ~(tk.data # NO_ADDR) THEN Return(tk, hp, ESP_ERR_INVALID_ARG)
         ELSE IF ~(tk.out # NO_ADDR) THEN Return(tk, hp, ESP_ERR_INVALID_ARG)
         ELSE IF ~(tk.data_len >= WireSize(tk.p, 0))
         THEN Return(tk, hp, ESP_ERR_INVALID_SIZE)
         ELSE St([tk EXCEPT !.pc = "len"], hp)
    ELSE IF tk.pc = "len"
    THEN LET len == hp[tk.data + H - 1] IN
         IF ~(tk.data_len >= H)
         THEN Return(tk, hp, ESP_ERR_INVALID_SIZE)
         ELSE IF ~(len <= MAX_PAYLOAD_SIZE)
         THEN Return([tk EXCEPT !.len = len], hp, ESP_ERR_INVALID_SIZE)
         ELSE IF ~(tk.data_len >= WireSize(tk.p, len))
         THEN Return([tk EXCEPT !.len = len], hp, ESP_ERR_INVALID_SIZE)
         ELSE St([tk EXCEPT !.len = len, !.pc = "crc", !.crc_ptr = tk.data,
                            !.crc_len = len, !.crc_next = "rcv"], hp)
    ELSE IF tk.pc \in {"crc", "crc_byte"}
    THEN crc_stmt(tk, hp)
    ELSE IF tk.pc = "rcv"
    THEN LET expected_crc == tk.crc
             received_crc == hp[tk.data + H + tk.len]
                             + Shl16(hp[tk.data + H + tk.len + 1], 8)
             t1 == [tk EXCEPT !.expected_crc = expected_crc,
                              !.received_crc = received_crc]
         IN  IF ~(expected_crc = received_crc)
             THEN Return(t1, hp, ESP_ERR_INVALID_CRC)
             ELSE St([t1 EXCEPT !.pc = "hdr"], hp)
    ELSE IF tk.pc = "hdr"
    THEN LET hdr == IF tk.p = "ext"
                    THEN [k \in 0 .. 3 |-> IF k = 3 THEN tk.len
                                           ELSE hp[tk.data + k]]
                    ELSE [k \in 0 .. 2 |-> IF k = 2 THEN tk.len
                                           ELSE hp[tk.data + k]]
             s1 == StoreRange(St(tk, hp), tk.out, hdr, 0, H)
         IN  St([s1.tk EXCEPT !.pc = "fill"], s1.hp)
    ELSE IF tk.pc = "fill"
    THEN LET msg_category == hp[tk.out]
             n == IF msg_category = MSG_CAT_TELEMETRY
                     /\ tk.len >= SIZEOF_TELEMETRY
                  THEN SIZEOF_TELEMETRY
                  ELSE IF msg_category = MSG_CAT_BATTERY
                          /\ tk.len >= SIZEOF_BATTERY
                  THEN SIZEOF_BATTERY
                  ELSE tk.len
             s1 == StoreRange(St(tk, hp), tk.out + H,
                              Slice(hp, tk.data + H, n), 0, n)
         IN  St([s1.tk EXCEPT !.pc = "crc_field"], s1.hp)
    ELSE LET s1 == Store(St(tk, hp), tk.out + H + MAX_PAYLOAD_SIZE,
                         tk.received_crc)
         IN  Return(s1.tk, s1.hp, ESP_OK)

\* serialize_frame storing the checksum it computed in the frame as well
serialize_stmt_updates_frame_crc(tk, hp) ==
    LET H == HeaderSize(tk.p) IN
    IF tk.pc = "entry"
    THEN IF ~(tk.frame # NO_ADDR) THEN Return(tk, hp, ESP_ERR_INVALID_ARG)
         ELSE IF ~(tk.out_buffer # NO_ADDR)
         THEN Return(tk, hp, ESP_ERR_INVALID_ARG)
         ELSE IF ~(hp[tk.frame + H - 1] <= MAX_PAYLOAD_SIZE)
         THEN Return(tk, hp, ESP_ERR_INVALID_STATE)
         ELSE LET required_size == WireSize(tk.p, hp[tk.frame + H - 1])
                  t1 == [tk EXCEPT !.required_size = required_size]
              IN  IF ~(tk.buffer_size >= required_size)
                  THEN Return(t1, hp, ESP_ERR_INVALID_SIZE)
                  ELSE St([t1 EXCEPT !.pc = "hdr"], hp)
    ELSE IF tk.pc = "hdr"
    THEN LET s1 == StoreRange(St(tk, hp), tk.out_buffer,
                              Slice(hp, tk.frame, H), 0, H)
         IN  St([s1.tk EXCEPT !.pc = "copy"], s1.hp)
    ELSE IF tk.pc = "copy"
    THEN LET n == hp[tk.frame + H - 1]
             s1 == StoreRange(St(tk, hp), tk.out_buffer + H,
                              Slice(hp, tk.frame + H, n), 0, n)
         IN  St([s1.tk EXCEPT !.pc = "crc", !.crc_ptr = tk.out_buffer,
                              !.crc_len = n, !.crc_next = "crc_lo"], s1.hp)
    ELSE IF tk.pc \in {"crc", "crc_byte"}
    THEN crc_stmt(tk, hp)
    ELSE IF tk.pc = "crc_lo"
    THEN LET crc_offset == H + hp[tk.frame + H - 1]
             s1 == Store(St(tk, hp), tk.out_buffer + crc_offset,
                         tk.crc % UINT8_RANGE)
         IN  St([s1.tk EXCEPT !.pc = "crc_hi"], s1.hp)
    ELSE IF tk.pc = "crc_hi"
    THEN LET crc_offset == H + hp[tk.frame + H - 1]
             s1 == Store(St(tk, hp), tk.out_buffer + crc_offset + 1,
                         (tk.crc \div UINT8_RANGE) % UINT8_RANGE)
             s2 == Store(s1, tk.frame + H + MAX_PAYLOAD_SIZE, tk.crc)
         IN  St([s2.tk EXCEPT !.pc = "size"], s2.hp)
    ELSE IF tk.out_size # NO_ADDR
    THEN LET s1 == Store(St(tk, hp), tk.out_size, tk.required_size)
         IN  Return(s1.tk, s1.hp, ESP_OK)
    ELSE Return(tk, hp, ESP_OK)

\* beam_serialize_frame and serialize_frame, statement by statement
serialize_stmt(tk, hp) ==
    LET H == HeaderSize(tk.p) IN
    IF tk.pc = "entry"
    THEN IF ~(tk.frame # NO_ADDR) THEN Return(tk, hp, ESP_ERR_INVALID_ARG)
         ELSE IF ~(tk.out_buffer # NO_ADDR)
         THEN Return(tk, hp, ESP_ERR_INVALID_ARG)
         ELSE IF ~(hp[tk.frame + H - 1] <= MAX_PAYLOAD_SIZE)
         THEN Return(tk, hp, ESP_ERR_INVALID_STATE)
         ELSE LET required_size == WireSize(tk.p, hp[tk.frame + H - 1])
                  t1 == [tk EXCEPT !.required_size = required_size]
              IN  IF ~(tk.buffer_size >= required_size)
                  THEN Return(t1, hp, ESP_ERR_INVALID_SIZE)
                  ELSE St([t1 EXCEPT !.pc = "hdr"], hp)
    ELSE IF tk.pc = "hdr"
    THEN LET s1 == StoreRange(St(tk, hp), tk.out_buffer,
                              Slice(hp, tk.frame, H), 0, H)
         IN  St([s1.tk EXCEPT !.pc = "copy"], s1.hp)
    ELSE IF tk.pc = "copy"
    THEN LET n == hp[tk.frame + H - 1]
             s1 == StoreRange(St(tk, hp), tk.out_buffer + H,
                              Slice(hp, tk.frame + H, n), 0, n)
         IN  St([s1.tk EXCEPT !.pc = "crc", !.crc_ptr = tk.out_buffer,
                              !.crc_len = n, !.crc_next = "crc_lo"], s1.hp)
    ELSE IF tk.pc \in {"crc", "crc_byte"}
    THEN crc_stmt(tk, hp)
    ELSE IF tk.pc = "crc_lo"
    THEN LET crc_offset == H + hp[tk.frame + H - 1]
             s1 == Store(St(tk, hp), tk.out_buffer + crc_offset,
                         tk.crc % UINT8_RANGE)
         IN  St([s1.tk EXCEPT !.pc = "crc_hi"], s1.hp)
    ELSE IF tk.pc = "crc_hi"
    THEN LET crc_offset == H + hp[tk.frame + H - 1]
             s1 == Store(St(tk, hp), tk.out_buffer + crc_offset + 1,
                         (tk.crc \div UINT8_RANGE) % UINT8_RANGE)
         IN  St([s1.tk EXCEPT !.pc = "size"], s1.hp)
    ELSE IF tk.out_size # NO_ADDR
    THEN LET s1 == Store(St(tk, hp), tk.out_size, tk.required_size)
         IN  Return(s1.tk, s1.hp, ESP_OK)
    ELSE Return(tk, hp, ESP_OK)

(***************************************************************************)
(* The callers of the statement-level codec.  A context prepares the input *)
(* of a call in its own region (the received bytes, or the fields of the   *)
(* frame to send), the codec runs one statement per step, and the context  *)
(* takes the result.  SpecPar runs NumTasks contexts with one call each,   *)
(* interleaved in every order; SpecSeq runs one context making MaxCalls    *)
(* calls one after the other on the memory the earlier calls left behind.  *)
(***************************************************************************)
MemProfiles == {"ext", "min"}
Region(hp, p, t) == [o \in 0 .. RegionSize(p) - 1 |-> hp[RegionBase(p, t) + o]]

NewTask(p, t, n, budget) ==
    [p |-> p, id |-> t, ntasks |-> n, budget |-> budget, calls |-> 0,
     op |-> "none", pc |-> "idle",
     data |-> NO_ADDR, data_len |-> 0, out |-> NO_ADDR,
     frame |-> NO_ADDR, out_buffer |-> NO_ADDR, buffer_size |-> 0,
     out_size |-> NO_ADDR,
     len |-> 0, crc |-> 0, i |-> 0, expected_crc |-> 0, received_crc |-> 0,
     required_size |-> 0, crc_ptr |-> 0, crc_len |-> 0, crc_next |-> "none",
     ret |-> "none", written |-> {}, pre |-> <<>>, overlapped |-> FALSE]

InitHeap(p, n) ==
    [a \in 0 .. StaticBase(p, n) |->
        PriorByte(a \div RegionSize(p), a % RegionSize(p))]

\* the payload lengths of the calls: one length when contexts interleave,
\* a short and a typed one when one context makes call after call
MemLens(tk) == IF tk.ntasks = 1 THEN {MaxMemLen, SIZEOF_BATTERY + 1}
               ELSE {MaxMemLen}

\* the frame context t sends or receives with payload length l, as bytes in
\* wire order and with the checksum its profile computes
TaskWire(p, t, l) ==
    LET H == HeaderSize(p)
        body == [i \in 0 .. H + l - 1 |->
                   IF i = H - 1 THEN l
                   ELSE IF i = 0 THEN MSG_CAT_BATTERY
                   ELSE IF i < H THEN (VariantSeq(t + 1) + i) % UINT8_RANGE
                   ELSE PayloadByte(t, i - H)]
        crc == WireCrc(p, body, H + l)
    IN  [i \in 0 .. H + l + 1 |->
           IF i < H + l THEN body[i]
           ELSE IF i = H + l THEN crc % UINT8_RANGE
           ELSE (crc \div UINT8_RANGE) % UINT8_RANGE]

\* received buffers: an intact frame per length, and in a sequence of calls
\* also a frame with a damaged checksum and a null buffer
ParseInputs(tk) ==
    {[null |-> FALSE, bytes |-> TaskWire(tk.p, tk.id, l),
      data_len |-> WireSize(tk.p, l)] : l \in MemLens(tk)}
    \cup (IF tk.ntasks = 1
          THEN {[null |-> FALSE,
                 bytes |-> [TaskWire(tk.p, tk.id, MaxMemLen) EXCEPT
                               ![HeaderSize(tk.p) + MaxMemLen] =
                                   (@ + 1) % UINT8_RANGE],
                 data_len |-> WireSize(tk.p, MaxMemLen)],
                [null |-> TRUE, bytes |-> <<>>, data_len |-> BufCap]}
          ELSE {})

\* frames to send: one per length into a buffer of exactly the frame's size,
\* and in a sequence of calls also a buffer one byte short, a null out_size
\* and a frame whose len exceeds MAX_PAYLOAD_SIZE
SerializeInputs(tk) ==
    {[len |-> l, buffer_size |-> WireSize(tk.p, l), size_null |-> FALSE] :
        l \in MemLens(tk)}
    \cup (IF tk.ntasks = 1
          THEN {[len |-> MaxMemLen, buffer_size |-> WireSize(tk.p, MaxMemLen) - 1,
                 size_null |-> FALSE],
                [len |-> MaxMemLen, buffer_size |-> BufCap, size_null |-> TRUE],
                [len |-> MAX_PAYLOAD_SIZE + 1, buffer_size |-> BufCap,
                 size_null |-> FALSE]}
          ELSE {})

InitMem(n, budget) ==
    /\ \E p \in MemProfiles :
          /\ heap = InitHeap(p, n)
          /\ task = [t \in 0 .. n - 1 |-> NewTask(p, t, n, budget)]
    /\ hist = NoHist
    /\ CodecIdle /\ CrcIdle /\ CtlIdle

InitPar == InitMem(NumTasks, 1)
InitSeq == InitMem(1, MaxCalls)

\* context t receives bytes into its buffer and calls beam_parse_into_frame
CallParse(t) ==
    /\ task[t].pc = "idle" /\ task[t].budget > 0
    /\ \E c \in ParseInputs(task[t]) :
          LET tk == task[t]
              base == RegionBase(tk.p, t)
              hp == [a \in DOMAIN heap |->
                       IF a - base \in DOMAIN c.bytes
                       THEN c.bytes[a - base] ELSE heap[a]]
          IN  /\ heap' = hp
              /\ task' = [task EXCEPT ![t] =
                    [tk EXCEPT !.op = "parse", !.pc = "entry",
                               !.calls = @ + 1, !.budget = @ - 1,
                               !.data = IF c.null THEN NO_ADDR
                                        ELSE base + BUF_OFF,
                               !.data_len = c.data_len,
                               !.out = base + FRAME_OFF,
                               !.ret = "none", !.written = {},
                               !.overlapped = FALSE,
                               !.pre = Region(hp, tk.p, t)]]
    /\ UNCHANGED hist
    /\ UNCHANGED <<codec_vars, crc_vars, ctl_vars>>

\* context t fills in the header and the payload of its frame and calls
\* beam_serialize_frame
CallSerialize(t) ==
    /\ task[t].pc = "idle" /\ task[t].budget > 0
    /\ \E c \in SerializeInputs(task[t]) :
          LET tk == task[t]
              H == HeaderSize(tk.p)
              base == RegionBase(tk.p, t)
              w == TaskWire(tk.p, t, IF c.len <= MAX_PAYLOAD_SIZE
                                     THEN c.len ELSE 0)
              hp == [a \in DOMAIN heap |->
                       LET o == a - base - FRAME_OFF IN
                       IF o = H - 1 THEN c.len
                       ELSE IF o >= 0 /\ o < H + c.len
                               /\ o < H + MAX_PAYLOAD_SIZE /\ o \in DOMAIN w
                       THEN w[o] ELSE heap[a]]
          IN  /\ heap' = hp
              /\ task' = [task EXCEPT ![t] =
                    [tk EXCEPT !.op = "serialize", !.pc = "entry",
                               !.calls = @ + 1, !.budget = @ - 1,
                               !.frame = base + FRAME_OFF,
                               !.out_buffer = base + BUF_OFF,
                               !.buffer_size = c.buffer_size,
                               !.out_size = IF c.size_null THEN NO_ADDR
                                            ELSE base + OUT_SIZE_OFF(tk.p),
                               !.ret = "none", !.written = {},
                               !.overlapped = FALSE,
                               !.pre = Region(hp, tk.p, t)]]
    /\ UNCHANGED hist
    /\ UNCHANGED <<codec_vars, crc_vars, ctl_vars>>

\* some other context is inside a call
OthersRunning(t) ==
    \E u \in DOMAIN task : u # t /\ task[u].pc \notin {"idle", "ret"}

\* one statement of the parse call of context t
ParseStep(t) ==
    /\ task[t].op = "parse" /\ task[t].pc \notin {"idle", "ret"}
    /\ LET r == parse_stmt(task[t], heap)
       IN  /\ task' = [task EXCEPT ![t] =
                          [r.tk EXCEPT !.overlapped = @ \/ OthersRunning(t)]]
           /\ heap' = r.hp
    /\ UNCHANGED hist
    /\ UNCHANGED <<codec_vars, crc_vars, ctl_vars>>

\* one statement of the serialize call of context t
SerializeStep(t) ==
    /\ task[t].op = "serialize" /\ task[t].pc \notin {"idle", "ret"}
    /\ LET r == serialize_stmt(task[t], heap)
       IN  /\ task' = [task EXCEPT ![t] =
                          [r.tk EXCEPT !.overlapped = @ \/ OthersRunning(t)]]
           /\ heap' = r.hp
    /\ UNCHANGED hist
    /\ UNCHANGED <<codec_vars, crc_vars, ctl_vars>>

\* what a call was given: its scalar arguments and the objects its input
\* pointers refer to
CallArgs(tk) ==
    IF tk.op = "parse"
    THEN [data_null |-> tk.data = NO_ADDR, data_len |-> tk.data_len,
          bytes |-> Slice(tk.pre, BUF_OFF, tk.data_len)]
    ELSE [frame |-> Slice(tk.pre, FRAME_OFF, OUT_SIZE_OFF(tk.p) - FRAME_OFF),
          buffer_size |-> tk.buffer_size,
          size_null |-> tk.out_size = NO_ADDR]

\* the context takes the result of its call; the call is logged with its
\* arguments, its return code and the cells it stored, by offset in the region
Finish(t) ==
    /\ task[t].pc = "ret"
    /\ LET tk == task[t]
           base == RegionBase(tk.p, t)
       IN  hist' = hist \cup
              {[t |-> t, k |-> tk.calls, op |-> tk.op, args |-> CallArgs(tk),
                ret |-> tk.ret,
                stores |-> {<<a - base, heap[a]>> : a \in tk.written}]}
    /\ task' = [task EXCEPT ![t].pc = "idle"]
    /\ UNCHANGED heap
    /\ UNCHANGED <<codec_vars, crc_vars, ctl_vars>>

NextMem ==
    \E t \in DOMAIN task :
        \/ CallParse(t)
        \/ CallSerialize(t)
        \/ ParseStep(t)
        \/ SerializeStep(t)
        \/ Finish(t)

SpecPar == InitPar /\ [][NextMem]_vars
SpecSeq == InitSeq /\ [][NextMem]_vars
(***************************************************************************)
(* Properties                                                              *)
(***************************************************************************)
\* the parser was called with both pointers non-null
Parsed == pc = "parsed" /\ ~prs.data_null /\ ~prs.out_null
MinSize(p) == WireSize(p, 0)
\* length byte and category byte of the delivered buffer
WireLen == wire.data[LenIndex(profile)]
WireCat == wire.data[0]
\* the two trailing bytes of the frame that starts the buffer, LSB first
WireCrcField(data, len) ==
    data[HeaderSize(profile) + len]
    + UINT8_RANGE * data[HeaderSize(profile) + len + 1]
TypedSize(cat) ==
    IF cat = MSG_CAT_TELEMETRY THEN SIZEOF_TELEMETRY
    ELSE IF cat = MSG_CAT_BATTERY THEN SIZEOF_BATTERY ELSE -1
TypedName(cat) ==
    IF cat = MSG_CAT_TELEMETRY THEN "telemetry"
    ELSE IF cat = MSG_CAT_BATTERY THEN "battery" ELSE "raw"
\* out_frame's payload storage holds bytes [0, n) of the wire payload and
\* keeps what it held before the call everywhere else
PayloadCopied(n) ==
    \A i \in DOMAIN out_frame.v.payload :
        out_frame.v.payload[i] =
            IF i < n THEN wire.data[HeaderSize(profile) + i]
            ELSE out_before.v.payload[i]

\* a serialized frame was delivered unchanged and parsed
RoundTripCase ==
    Parsed /\ wire.origin = "serialize" /\ wire.damage.kind = "none"

\* C1 as stated: parse(serialize(F)) returns OK and yields F's header, F's
\* len payload bytes and F's crc field.
C1_RoundTrip_Original ==
    RoundTripCase =>
        /\ prs.ret = ESP_OK
        /\ out_frame.v.header = frame.v.header
        /\ \A i \in 0 .. frame.v.header.len - 1 :
               out_frame.v.payload[i] = frame.v.payload[i]
        /\ out_frame.v.crc = frame.v.crc

\* C1 (amended): parse(serialize(F)) returns OK and yields F's header; the
\* payload bytes [0, k) equal F's, where k is the typed size for a known
\* category whose len reaches it and len otherwise, and the rest of the
\* payload storage keeps its prior contents; crc is the checksum the
\* serializer wrote on the wire, not F's crc field.
C1_RoundTrip ==
    RoundTripCase =>
        LET cat == FrameCat(profile, frame.v)
            len == frame.v.header.len
            k == IF TypedSize(cat) >= 0 /\ len >= TypedSize(cat)
                 THEN TypedSize(cat) ELSE len
        IN  /\ prs.ret = ESP_OK
            /\ out_frame.v.header = frame.v.header
            /\ \A i \in DOMAIN out_frame.v.payload :
                   out_frame.v.payload[i] =
                       IF i < k THEN frame.v.payload[i]
                       ELSE out_before.v.payload[i]
            /\ out_frame.v.crc = WireCrcField(wire.sent, len)

C1_Witness ==
    /\ RoundTripCase
    /\ prs.ret = ESP_OK
    /\ FrameCat(profile, frame.v) = MSG_CAT_TELEMETRY
    /\ frame.v.header.len > SIZEOF_TELEMETRY
    /\ frame.v.crc # out_frame.v.crc

\* a serialized frame was delivered with one bit flipped and parsed
FlipCase ==
    Parsed /\ wire.origin = "serialize" /\ wire.damage.kind = "flip"

\* C2 as stated: whichever bit of a serialized frame is flipped, the parser
\* returns InvalidCRC.
C2_Corruption_Original ==
    FlipCase => prs.ret = ESP_ERR_INVALID_CRC

\* C2 (amended): a flipped bit outside the length byte makes the parser
\* return InvalidCRC; a flip that sets a bit of the length byte makes it
\* return InvalidSize; a flip that clears a bit of the length byte makes it
\* return InvalidCRC, or OK when the checksum of the shortened frame
\* happens to match the bytes that follow it.
C2_Corruption ==
    FlipCase =>
        IF wire.damage.byte # LenIndex(profile)
        THEN prs.ret = ESP_ERR_INVALID_CRC
        ELSE IF BitOf(wire.sent[LenIndex(profile)], wire.damage.bit) = 0
        THEN prs.ret = ESP_ERR_INVALID_SIZE
        ELSE \/ prs.ret = ESP_ERR_INVALID_CRC
             \/ /\ prs.ret = ESP_OK
                /\ WireCrc(profile, wire.data, HeaderSize(profile) + WireLen)
                   = WireCrcField(wire.data, WireLen)

\* the flip of the length byte that goes undetected, and one that is
\* reported as InvalidSize
C2_Witness ==
    /\ FlipCase
    /\ wire.damage.byte = LenIndex(profile)
    /\ wire.sent[LenIndex(profile)] = 1
    /\ wire.damage.bit = 0
    /\ prs.ret = ESP_OK
    /\ out_frame.v.header.len = 0

\* a prefix of a serialized frame was delivered and parsed
TruncCase ==
    Parsed /\ wire.origin = "serialize" /\ wire.damage.kind = "trunc"

\* C3: parsing a prefix of a serialized frame that is shorter than the frame
\* returns InvalidSize (and so never InvalidCRC).
C3_Truncation ==
    TruncCase => prs.ret = ESP_ERR_INVALID_SIZE

C3_Witness ==
    /\ TruncCase
    /\ wire.data_len >= MinSize(profile)
    /\ wire.data_len = WireSize(profile, frame.v.header.len) - 1
    /\ prs.ret = ESP_ERR_INVALID_SIZE

\* C4: when the parser returns an error, out_frame is what it was before the
\* call, in every field.
C4_NoPartialMutation ==
    (pc = "parsed" /\ prs.ret # ESP_OK) => out_frame = out_before

C4_Witness ==
    /\ Parsed
    /\ profile = "ext"
    /\ prs.ret = ESP_ERR_INVALID_CRC
    /\ out_frame = out_before

\* C5: the parser returns the error of the first failing check, in the order
\* null pointer, data_len below the minimum frame, length byte above the
\* maximum, data_len below the declared frame, checksum mismatch; the length
\* byte is read only once the first two passed and the checksum is computed
\* only once all four passed.
C5_CheckOrder ==
    pc = "parsed" =>
        IF prs.data_null \/ prs.out_null
        THEN prs.ret = ESP_ERR_INVALID_ARG /\ prs.reads = {}
        ELSE IF wire.data_len < MinSize(profile)
        THEN prs.ret = ESP_ERR_INVALID_SIZE /\ prs.reads = {}
        ELSE IF WireLen > MaxPayload(profile)
        THEN prs.ret = ESP_ERR_INVALID_SIZE /\ prs.crc_len = -1
        ELSE IF wire.data_len < WireSize(profile, WireLen)
        THEN prs.ret = ESP_ERR_INVALID_SIZE /\ prs.crc_len = -1
        ELSE /\ prs.crc_len = HeaderSize(profile) + WireLen
             /\ IF WireCrc(profile, wire.data, HeaderSize(profile) + WireLen)
                   # WireCrcField(wire.data, WireLen)
                THEN prs.ret = ESP_ERR_INVALID_CRC
                ELSE prs.ret = ESP_OK

C5_Witness ==
    /\ pc = "parsed"
    /\ prs.data_null
    /\ ~prs.out_null
    /\ wire.data_len < MinSize(profile)
    /\ prs.ret = ESP_ERR_INVALID_ARG

\* a buffer of at least the minimum frame size whose length byte exceeds
\* the maximum payload size was parsed
OverLimitCase ==
    /\ Parsed
    /\ wire.data_len >= MinSize(profile)
    /\ WireLen > MaxPayload(profile)

\* C6: a length byte above the maximum is rejected with InvalidSize whatever
\* the checksum bytes and the buffer length are, and no byte has been fed to
\* the CRC engine by then.
C6_OverLimit ==
    OverLimitCase =>
        /\ prs.ret = ESP_ERR_INVALID_SIZE
        /\ prs.crc_len = -1
        /\ prs.reads \subseteq {LenIndex(profile)}

C6_Witness ==
    /\ OverLimitCase
    /\ WireLen = MaxPayload(profile) + 1
    /\ wire.data_len >= WireSize(profile, WireLen)
    /\ WireCrc(profile, wire.data, HeaderSize(profile) + WireLen)
       = WireCrcField(wire.data, WireLen)
    /\ prs.ret = ESP_ERR_INVALID_SIZE

\* C7: every frame of payload length 0..MAX_PAYLOAD_SIZE serializes with OK
\* into a buffer of at least the frame size, and the produced bytes parse
\* with OK and the same length.
C7_Boundary ==
    /\ (/\ pc = "serialized"
        /\ ~frame.null
        /\ ~ser.before.null
        /\ frame.v.header.len <= MAX_PAYLOAD_SIZE
        /\ ser.buffer_size >= WireSize(profile, frame.v.header.len))
       => ser.ret = ESP_OK
    /\ RoundTripCase =>
           /\ prs.ret = ESP_OK
           /\ out_frame.v.header.len = frame.v.header.len

C7_Witness ==
    /\ RoundTripCase
    /\ frame.v.header.len = MAX_PAYLOAD_SIZE
    /\ prs.ret = ESP_OK
    /\ out_frame.v.header.len = MAX_PAYLOAD_SIZE

\* a valid frame was parsed by a profile that dispatches on the category
DispatchCase == Parsed /\ wire.valid /\ profile # "legacy"

\* C8: a valid frame of a known category whose length is below the type's
\* size is accepted, its len bytes are copied as raw bytes and nothing
\* else of the payload storage is written.
C8_Fallback ==
    (DispatchCase /\ TypedSize(WireCat) >= 0 /\ WireLen < TypedSize(WireCat))
        => /\ prs.ret = ESP_OK
           /\ prs.member = "raw"
           /\ PayloadCopied(WireLen)

C8_Witness ==
    /\ DispatchCase
    /\ WireCat = MSG_CAT_TELEMETRY
    /\ WireLen = 4
    /\ prs.ret = ESP_OK
    /\ prs.member = "raw"

\* C9: for a valid frame the dispatcher never fails: an unknown category
\* stores all len bytes as raw, a known category whose length reaches the
\* type's size N stores exactly the first N bytes in the typed member.
C9_Dispatch ==
    DispatchCase =>
        /\ prs.ret = ESP_OK
        /\ TypedSize(WireCat) < 0
               => prs.member = "raw" /\ PayloadCopied(WireLen)
        /\ (TypedSize(WireCat) >= 0 /\ WireLen >= TypedSize(WireCat))
               => /\ prs.member = TypedName(WireCat)
                  /\ PayloadCopied(TypedSize(WireCat))

C9_Witness ==
    /\ DispatchCase
    /\ WireCat = MSG_CAT_BATTERY
    /\ WireLen > SIZEOF_BATTERY
    /\ prs.member = "battery"
    /\ PayloadCopied(SIZEOF_BATTERY)

\* C10: the serializer returns InvalidArgument for a null frame or buffer,
\* else InvalidState for a length above the maximum, else InvalidSize for a
\* buffer below the frame size, else OK, whether or not out_size is null.
C10_SerializerPreconditions ==
    pc = "serialized" =>
        ser.ret =
            IF frame.null \/ ser.before.null THEN ESP_ERR_INVALID_ARG
            ELSE IF frame.v.header.len > MAX_PAYLOAD_SIZE
            THEN ESP_ERR_INVALID_STATE
            ELSE IF ser.buffer_size < WireSize(profile, frame.v.header.len)
            THEN ESP_ERR_INVALID_SIZE
            ELSE ESP_OK

C10_Witness ==
    /\ pc = "serialized"
    /\ ~frame.null
    /\ ~ser.before.null
    /\ frame.v.header.len > MAX_PAYLOAD_SIZE
    /\ ser.buffer_size < WireSize(profile, frame.v.header.len)
    /\ ser.out_size.null
    /\ ser.ret = ESP_ERR_INVALID_STATE

\* the frame handed to the serializer: the sender's, or the parsed one
SerFrame == IF pc = "reserialized" THEN out_frame ELSE frame
Serialized == pc \in {"serialized", "reserialized"} /\ ser.ret = ESP_OK

\* C11: on success the serializer has written the header fields at offsets
\* 0..header_size-1 in the order msg_category, flags, seq, len (msg_id, seq,
\* len in the minimal profile), then the len payload bytes, then the checksum
\* of those header_size + len bytes, low byte first, and reports
\* header_size + len + 2 bytes written.
C11_Layout ==
    Serialized =>
        LET f == SerFrame.v
            H == HeaderSize(profile)
            len == f.header.len
            b == ser.out_buffer.v
            crc == WireCrc(profile, [i \in 0 .. H + len - 1 |-> b[i]], H + len)
        IN  /\ b[0] = FrameCat(profile, f)
            /\ IF profile = "ext"
               THEN b[1] = f.header.flags /\ b[2] = f.header.seq /\ b[3] = len
               ELSE b[1] = f.header.seq /\ b[2] = len
            /\ \A i \in 0 .. len - 1 : b[H + i] = f.payload[i]
            /\ b[H + len] = crc % UINT8_RANGE
            /\ b[H + len + 1] = crc \div UINT8_RANGE
            /\ ~ser.out_size.null => ser.out_size.v = H + len + FRAME_CRC_SIZE

C11_Witness ==
    /\ pc = "serialized"
    /\ ser.ret = ESP_OK
    /\ frame.v.header.len = SIZEOF_TELEMETRY + 1
    /\ ~ser.out_size.null
    /\ ser.out_size.v = HeaderSize(profile) + SIZEOF_TELEMETRY + 1 + FRAME_CRC_SIZE
    /\ ser.out_buffer.v[LenIndex(profile)] = SIZEOF_TELEMETRY + 1
    /\ ser.out_buffer.v[HeaderSize(profile)] = frame.v.payload[0]

\* C16: whatever bytes and data_len the parser is given, it returns OK,
\* InvalidSize or InvalidCRC, reads no byte at an index >= data_len and
\* writes nothing behind the MAX_PAYLOAD_SIZE bytes of the payload storage.
C16_SafeDecoding ==
    Parsed =>
        /\ prs.ret \in {ESP_OK, ESP_ERR_INVALID_SIZE, ESP_ERR_INVALID_CRC}
        /\ prs.reads \subseteq 0 .. wire.data_len - 1
        /\ DOMAIN out_frame.v.payload = 0 .. MaxPayload(profile) - 1

C16_Witness ==
    /\ Parsed
    /\ wire.origin = "raw"
    /\ wire.data_len >= MinSize(profile)
    /\ wire.data_len < WireSize(profile, WireLen)
    /\ WireLen <= MaxPayload(profile)
    /\ prs.reads = {LenIndex(profile)}
    /\ prs.ret = ESP_ERR_INVALID_SIZE

\* a valid frame followed by extra bytes was delivered and parsed
PadCase == Parsed /\ wire.damage.kind = "pad"

\* C19: a buffer that starts with a valid frame and is longer than the frame
\* parses with OK into the same frame as its first header_size + len + 2
\* bytes alone, whatever the extra bytes hold.
C19_TrailingBytes ==
    PadCase =>
        LET n == WireSize(profile, WireLen)
            exact == [i \in 0 .. n - 1 |-> wire.data[i]]
            r == ParseCall(profile, Ptr(exact), n, out_before)
        IN  /\ wire.data_len > n
            /\ prs.ret = ESP_OK
            /\ r.ret = ESP_OK
            /\ out_frame = r.out

C19_Witness ==
    /\ PadCase
    /\ WireLen = MAX_PAYLOAD_SIZE
    /\ wire.data[WireSize(profile, WireLen)]
       = PriorByte(1, WireSize(profile, WireLen))
    /\ prs.ret = ESP_OK
    /\ out_frame.v.header.len = MAX_PAYLOAD_SIZE

\* C20 as stated: serializing the frame the parser produced gives back the
\* first header_size + len + 2 bytes of the parsed buffer.
C20_WireRoundTrip_Original ==
    pc = "reserialized" =>
        /\ ser.ret = ESP_OK
        /\ \A i \in 0 .. WireSize(profile, WireLen) - 1 :
               ser.out_buffer.v[i] = wire.data[i]

\* C20 (amended): serializing the frame the parser produced gives back the
\* header bytes and the first k payload bytes of the parsed buffer, where k
\* is the typed size for a known category whose len reaches it and len
\* otherwise; when k = len the whole frame including its checksum is given
\* back; when k < len the payload bytes k..len-1 are what out_frame held
\* before the parse and the checksum is the one of the bytes written.
C20_WireRoundTrip ==
    pc = "reserialized" =>
        LET H == HeaderSize(profile)
            len == WireLen
            k == IF TypedSize(WireCat) >= 0 /\ len >= TypedSize(WireCat)
                 THEN TypedSize(WireCat) ELSE len
            b == ser.out_buffer.v
        IN  /\ ser.ret = ESP_OK
            /\ \A i \in 0 .. H + k - 1 : b[i] = wire.data[i]
            /\ \A i \in k .. len - 1 : b[H + i] = out_before.v.payload[i]
            /\ k = len => \A i \in 0 .. H + len + 1 : b[i] = wire.data[i]
            /\ WireCrcField(b, len)
               = WireCrc(profile, [i \in 0 .. H + len - 1 |-> b[i]], H + len)

C20_Witness ==
    /\ pc = "reserialized"
    /\ ser.ret = ESP_OK
    /\ WireCat = MSG_CAT_TELEMETRY
    /\ WireLen = SIZEOF_TELEMETRY + 1
    /\ ser.out_buffer.v[HeaderSize(profile) + SIZEOF_TELEMETRY]
       = out_before.v.payload[SIZEOF_TELEMETRY]
    /\ ser.out_buffer.v[HeaderSize(profile) + SIZEOF_TELEMETRY]
       # wire.data[HeaderSize(profile) + SIZEOF_TELEMETRY]

\* CRC-16/CCITT as its definition reads: polynomial 0x1021, register
\* initially 0xFFFF, the message shifted in one bit at a time, most
\* significant bit of each byte first, no reflection, no final XOR
RefCrcBit(reg, m) ==
    LET fb == ((reg \div CRC_BIT_MASK) + m) % 2
        sh == (2 * reg) % UINT16_RANGE
    IN  IF fb = 1 THEN Xor(sh, CRC_POLYNOM) ELSE sh

RECURSIVE RefCrcByte(_, _, _)
RefCrcByte(reg, b, k) ==
    IF k < 0 THEN reg
    ELSE LET r == RefCrcBit(reg, BitOf(b, k))
         IN  IF r < 0 THEN r ELSE RefCrcByte(r, b, k - 1)

RECURSIVE RefCrc16(_, _)
RefCrc16(data, n) ==
    IF n = 0 THEN CRC_INIT
    ELSE LET r == RefCrc16(data, n - 1)
         IN  IF r < 0 THEN r ELSE RefCrcByte(r, data[n - 1], 7)

\* C12: the bit-wise engine's register stays within 16 bits and, after any
\* number of bytes, equals CRC-16/CCITT (0x1021, init 0xFFFF, MSB first, no
\* final XOR) of the bytes fed so far; compute_frame_crc and
\* beam_compute_frame_crc give that value for the whole sequence, and the
\* digits "123456789" give 0x29B1.
C12_CrcConformance ==
    crc_run.stage \in {"run", "done"} =>
        /\ crc_run.crc \in 0 .. UINT16_RANGE - 1
        /\ crc_run.crc = RefCrc16(crc_run.data, crc_run.i)
        /\ (crc_run.data = CheckString /\ crc_run.i = 9) => crc_run.crc = 10673
        /\ (crc_run.stage = "done" /\ crc_run.framed) =>
               /\ crc_run.frame_crc = RefCrc16(crc_run.data, crc_run.n)
               /\ crc_run.beam_frame_crc = crc_run.frame_crc

C12_Witness ==
    /\ crc_run.stage = "done"
    /\ crc_run.data = CheckString
    /\ crc_run.crc = 10673
    /\ crc_run.frame_crc = 10673

\* C13: over the same bytes esp_crc16_be(0xFFFF, data, n) and the bit-wise
\* CRC with initial register 0xFFFF give the same 16-bit value.
C13_CrcEquivalence ==
    crc_run.stage = "done" => crc_run.esp = crc_run.crc

\* controller_read_values has returned for a configuration whose axes were
\* all set up for one-shot reading
ReadValuesCase ==
    /\ adc.pc = "read"
    /\ ~adc.cfg_null
    /\ \A i \in Axes : adc.cfg[i].mode = ONE_SHOT

\* C18: controller_read_values reads every configured axis, converts the
\* reading of exactly the axes that have a calibration handle, and returns
\* ESP_OK also when some axis has none.
C18_ReadWithoutCalibration ==
    ReadValuesCase =>
        /\ adc.ret = ESP_OK
        /\ adc.read = Axes
        /\ adc.conv = {i \in Axes : adc.cfg[i].cali_handler # NO_HANDLE}

\* the beam_frame_t stored in a region
DecodeFrame(p, r) ==
    MkFrameOf(p, r[FRAME_OFF], r[FRAME_OFF + 1], r[FRAME_OFF + HeaderSize(p) - 2],
              r[FRAME_OFF + HeaderSize(p) - 1],
              [i \in 0 .. MAX_PAYLOAD_SIZE - 1 |-> r[PAYLOAD_OFF(p) + i]],
              r[CRC_OFF(p)])
Returned(t) == task[t].calls > 0 /\ task[t].pc \in {"idle", "ret"}

\* C17: the serializer never modifies the input frame; on success the only
\* cells it stores to are out_buffer[0 .. header_size + len + 2) and, when
\* out_size is not null, *out_size, every other cell keeping the value it had
\* at the call; on an error it stores nothing at all.
C17_SerializerFrameCondition ==
    \A t \in DOMAIN task :
        (task[t].op = "serialize" /\ task[t].pc # "idle") =>
            LET tk == task[t]
                now == Region(heap, tk.p, t)
                base == RegionBase(tk.p, t)
                n == WireSize(tk.p, tk.pre[FRAME_OFF + HeaderSize(tk.p) - 1])
                allowed == {tk.out_buffer + i : i \in 0 .. n - 1}
                           \cup (IF tk.out_size = NO_ADDR THEN {}
                                 ELSE {tk.out_size})
            IN  /\ \A o \in FRAME_OFF .. OUT_SIZE_OFF(tk.p) - 1 :
                       now[o] = tk.pre[o]
                /\ tk.pc = "ret" /\ tk.ret = ESP_OK =>
                       /\ tk.written \subseteq allowed
                       /\ \A o \in DOMAIN now :
                              base + o \notin allowed => now[o] = tk.pre[o]
                /\ tk.pc = "ret" /\ tk.ret # ESP_OK =>
                       tk.written = {} /\ now = tk.pre

\* a later call of a sequence serialized a frame into a buffer larger than
\* the frame, with a null out_size
C17_Witness ==
    \E t \in DOMAIN task :
        /\ task[t].op = "serialize" /\ task[t].pc = "ret"
        /\ task[t].ret = ESP_OK /\ task[t].calls > 1
        /\ task[t].out_size = NO_ADDR
        /\ task[t].buffer_size > task[t].required_size
        /\ task[t].written # {}

\* the return code and the memory a call leaves behind are those of the call
\* executed alone, in one piece, on the memory the call was given
SoloEqual(t) ==
    LET tk == task[t]
        now == Region(heap, tk.p, t)
        buf == Ptr(Slice(tk.pre, BUF_OFF, BufCap))
        fr == Ptr(DecodeFrame(tk.p, tk.pre))
    IN  IF tk.op = "parse"
        THEN LET r == ParseCall(tk.p, IF tk.data = NO_ADDR THEN NULL ELSE buf,
                                tk.data_len, fr)
             IN  /\ tk.ret = r.ret
                 /\ DecodeFrame(tk.p, now) = r.out.v
                 /\ Slice(now, BUF_OFF, BufCap) = buf.v
                 /\ now[OUT_SIZE_OFF(tk.p)] = tk.pre[OUT_SIZE_OFF(tk.p)]
        ELSE LET osz == IF tk.out_size = NO_ADDR THEN NULL
                        ELSE Ptr(tk.pre[OUT_SIZE_OFF(tk.p)])
                 r == SerializeCall(tk.p, fr, buf, tk.buffer_size, osz)
             IN  /\ tk.ret = r.ret
                 /\ Slice(now, BUF_OFF, BufCap) = r.out_buffer.v
                 /\ DecodeFrame(tk.p, now) = fr.v
                 /\ now[OUT_SIZE_OFF(tk.p)] = IF osz.null
                                              THEN tk.pre[OUT_SIZE_OFF(tk.p)]
                                              ELSE r.out_size.v

\* C14: calls running concurrently in different contexts on disjoint buffers
\* give each call, under every interleaving of their statements, the return
\* code and the output the call gives when it runs alone.
C14_Reentrancy ==
    \A t \in DOMAIN task : Returned(t) => SoloEqual(t)

\* a parse and a serialize call have both returned ESP_OK after running
\* statements while the other one was inside its call
C14_Witness ==
    \E t, u \in DOMAIN task :
        /\ t # u /\ Returned(t) /\ Returned(u)
        /\ task[t].overlapped /\ task[u].overlapped
        /\ task[t].op = "parse" /\ task[u].op = "serialize"
        /\ task[t].ret = ESP_OK /\ task[u].ret = ESP_OK
        /\ task[t].p = "min"

\* C15: whatever calls were made before, the return code of a call and the
\* values it stores are a function of the call's own arguments (the buffer
\* bytes and data_len, or the frame, buffer_size and whether out_size is
\* null): two calls with equal arguments return and store the same.
C15_Stateless ==
    \A h1, h2 \in hist :
        (h1.op = h2.op /\ h1.args = h2.args) =>
            (h1.ret = h2.ret /\ h1.stores = h2.stores)

\* the same successful call was made twice with a call of the other kind
\* between the two
C15_Witness ==
    \E h1, h2, h3 \in hist :
        /\ h1.k < h3.k /\ h3.k < h2.k
        /\ h1.op = h2.op /\ h1.args = h2.args /\ h3.op # h1.op
        /\ h1.ret = ESP_OK /\ h3.ret = ESP_OK /\ h1.stores # {}

\* the parser accepted the buffer it was given (extended or minimal profile)
Accepted ==
    /\ pc \in {"parsed", "reserialized"} /\ profile # "legacy"
    /\ ~prs.data_null /\ ~prs.out_null /\ prs.ret = ESP_OK

\* C21: whenever parse returns OK, out.header.len <= MAX_PAYLOAD_SIZE, the
\* header fields of out equal the wire bytes at their fixed offsets, and
\* out.crc equals both the two trailing wire bytes read low byte first and the
\* checksum of the header_size + len bytes before them; and the serializer
\* never copies frame.crc to the wire: its output is the same for another
\* value of frame.crc and passes the parser's checksum test.
C21_AcceptedFrame ==
    /\ Accepted =>
          LET o == out_frame.v
              H == HeaderSize(profile)
              len == o.header.len
              d == wire.data
          IN  /\ len <= MAX_PAYLOAD_SIZE
              /\ len = d[H - 1]
              /\ FrameCat(profile, o) = d[0]
              /\ IF profile = "ext"
                 THEN o.header.flags = d[1] /\ o.header.seq = d[2]
                 ELSE o.header.seq = d[1]
              /\ o.crc = WireCrcField(d, len)
              /\ o.crc = WireCrc(profile, [i \in 0 .. H + len - 1 |-> d[i]],
                                 H + len)
    /\ Serialized =>
          LET f == SerFrame.v
              n == WireSize(profile, f.header.len)
              sent == [i \in 0 .. n - 1 |-> ser.out_buffer.v[i]]
              other == [f EXCEPT !.crc = (@ + 1) % UINT16_RANGE]
          IN  /\ ParseCall(profile, Ptr(sent), n,
                           Ptr(PriorFrame(profile, 0))).ret = ESP_OK
              /\ SerializeCall(profile, Ptr(other), ser.before,
                               ser.buffer_size, NULL).out_buffer
                     = ser.out_buffer

\* an accepted frame was serialized again while its crc field held a value
\* other than the checksum that went on the wire
C21_Witness ==
    /\ Accepted /\ Serialized /\ pc = "reserialized"
    /\ out_frame.v.header.len > 0
    /\ out_frame.v.crc = WireCrcField(wire.data, out_frame.v.header.len)
    /\ out_frame.v.crc # WireCrcField(ser.out_buffer.v, out_frame.v.header.len)

\* C22: over any sequence of controller_config calls, with any number of axes
\* on ADC unit 1 or unit 2, adc_oneshot_new_unit is called at most once per
\* unit index, it never stores into a slot that holds a handle, and every
\* channel is configured with the handle that was created for its own unit
\* and is the one in the unit's slot.
C22_UnitHandlesOnce ==
    adc.pc # "none" =>
        /\ \A u \in 0 .. 1 : adc.new_unit[u] <= 1
        /\ \A e \in adc.unit_log : e.prev = NO_HANDLE
        /\ \A c \in adc.chan_log :
               /\ c.handle # NO_HANDLE
               /\ UnitOfHandle(c.handle) = c.unit_id
               /\ c.handle = adc.adc_one_shot_handlers[
                                 IF c.unit_id = ADC_UNIT_1 THEN 0 ELSE 1]

\* two controller_config calls have configured axes of both units, one unit
\* shared by two axes
C22_Witness ==
    /\ adc.pc = "configured" /\ adc.configs = MaxConfigs
    /\ adc.new_unit = [u \in 0 .. 1 |-> 1]
    /\ \E c1, c2, c3 \in adc.chan_log :
          /\ c1.axis # c2.axis /\ c1.unit_id = c2.unit_id
          /\ c3.unit_id # c1.unit_id

====
